---- MODULE Spec2Model ----
(***************************************************************************)
(* Job-sheet scanner, sale screens and client screens of the Bikeworks     *)
(* workshop app.                                                           *)
(*                                                                         *)
(*   src/utils/parseJobSheet.ts            parseJobSheetText, tryPatterns  *)
(*   src/components/jobs/JobSheetScanner.tsx  takePhoto, processJobSheet   *)
(*   src/app/sales/new.tsx                 NewSaleScreen                   *)
(*   src/components/sales/*.tsx            the forms of its four steps     *)
(*   src/components/clients/ClientForm.tsx ClientForm, ClientList          *)
(*   src/unnamed/part_002                  SalesForm                       *)
(*                                                                         *)
(* Spec runs the scanner, SpecSale the new-sale screen, SpecClient         *)
(* ClientForm, SpecSales SalesForm and SpecList ClientList.                *)
(*                                                                         *)
(* Text is a TLA+ string; Len, \o and SubSeq act on it character by        *)
(* character.  The regular expressions of parseJobSheet.ts are translated  *)
(* construct by construct (case-insensitive label, greedy and lazy         *)
(* quantifiers with backtracking, lookahead, end of input).  A number      *)
(* that parseFloat, parseInt or + computes is held as its JavaScript       *)
(* numeral; the numbers of stored documents, which no code computes on,    *)
(* are written as integers.                                                *)
(***************************************************************************)
EXTENDS Integers, Sequences, FiniteSets, TLC

(***************************************************************************)
(* Characters and character classes                                        *)
(***************************************************************************)

\* character i of s, "" outside the string (a regex atom fails there)
CharAt(s, i) == IF i >= 1 /\ i <= Len(s) THEN SubSeq(s, i, i) ELSE ""

UpperCase == "ABCDEFGHIJKLMNOPQRSTUVWXYZ"

LowerCase == "abcdefghijklmnopqrstuvwxyz"

Letters == {CharAt(UpperCase, i) : i \in 1..Len(UpperCase)}

LowerOf ==
  [c \in Letters |->
     CharAt(LowerCase, CHOOSE i \in 1..Len(UpperCase) : CharAt(UpperCase, i) = c)]

\* case folding of the /i flag
Canonicalize(c) == IF c \in Letters THEN LowerOf[c] ELSE c

\* \s, and the white space String.prototype.trim removes: space, \n, \t, \r,
\* form feed, vertical tab, U+00A0, U+1680 and U+FEFF; the remaining
\* characters of the class (U+2000 to U+200A, U+2028, U+2029, U+202F, U+205F,
\* U+3000) cannot be written in a TLA+ string
IsSpace(c) == c \in {" ", "\n", "\t", "\r", "\f", "", " ", " ", "﻿"}

\* [\s:]
IsSep(c) == IsSpace(c) \/ c = ":"

\* \d
IsDigit(c) == c \in {"0", "1", "2", "3", "4", "5", "6", "7", "8", "9"}

\* [\d\s]
IsDigitOrSpace(c) == IsDigit(c) \/ IsSpace(c)

\* [^\n]
NotNewline(c) == c # "" /\ c # "\n"

MinOf(S) == CHOOSE x \in S : \A y \in S : x <= y

MaxOf(S) == CHOOSE x \in S : \A y \in S : x >= y

\* c belongs to the character class named cls
InClass(c, cls) ==
  CASE cls = "[\\s:]"   -> IsSep(c)
    [] cls = "\\d"      -> IsDigit(c)
    [] cls = "[\\d\\s]" -> IsDigitOrSpace(c)
    [] cls = "[^\\n]"   -> NotNewline(c)
    [] cls = ":"        -> c = ":"
    [] cls = "[^\\s@]"   -> c # "" /\ ~IsSpace(c) /\ c # "@"
    [] cls = "[ \\t:]"   -> c \in {" ", "\t", ":"}
    [] cls = "\\s"      -> IsSpace(c)

\* position after the longest run of characters of class cls that starts at i
RunEnd(t, i, cls) ==
  CHOOSE j \in i..(Len(t) + 1) :
    /\ ~InClass(CharAt(t, j), cls)
    /\ \A k \in i..(j - 1) : InClass(CharAt(t, k), cls)

\* the literal lab occurs at position i of t, letter case ignored
LabelAt(t, i, lab) ==
  /\ i + Len(lab) - 1 <= Len(t)
  /\ \A k \in 1..Len(lab) :
       Canonicalize(CharAt(t, i + k - 1)) = Canonicalize(CharAt(lab, k))

\* trim() left out
NoTrim(s) == s

\* String.prototype.trim
Trim(s) ==
  LET keep == {i \in 1..Len(s) : ~IsSpace(CharAt(s, i))}
  IN  IF keep = {} THEN "" ELSE SubSeq(s, MinOf(keep), MaxOf(keep))

(***************************************************************************)
(* Regular expressions of parseJobSheetText                                *)
(***************************************************************************)

NoMatch == [ok |-> FALSE, cap |-> ""]

Captured(s) == [ok |-> TRUE, cap |-> s]

\* /Label[\s:]+([^\n]+)/i
LinePattern(lab) == [kind |-> "line", label |-> lab, stops |-> <<>>]

\* /Label[\s:]+(\d[\d\s]{7,})/i
PhonePattern(lab) == [kind |-> "phone", label |-> lab, stops |-> <<>>]

\* the unlabelled pattern replaced by one more labelled pattern
TelephonePattern == [kind |-> "phone", label |-> "Telephone", stops |-> <<>>]

\* /(\d{4}\s?\d{3}\s?\d{3})/
DigitsPattern == [kind |-> "digits", label |-> "", stops |-> <<>>]

\* /Label[\s:]+([\s\S]+?)(?=Stop1|Stop2|$)/i
SectionPattern(lab, st) == [kind |-> "section", label |-> lab, stops |-> st]

\* a cost pattern that is not anchored on its label
CostPatternUnlabelled(lab) == [kind |-> "cost", label |-> "", stops |-> <<>>]

\* a cost read with the pattern of the one-line fields
CostPatternAsLine(lab) == [kind |-> "line", label |-> lab, stops |-> <<>>]

\* /Label[\s:]*\$?(\d+\.?\d*)/i
CostPattern(lab) == [kind |-> "cost", label |-> lab, stops |-> <<>>]

\* /Label[\s:]+([\s\S]+)/i
RestPattern(lab) == [kind |-> "rest", label |-> lab, stops |-> <<>>]

\* (?=Stop1|...|$) at position n; $ is the end of input (no m flag)
StopAt(t, n, st) ==
  \/ n = Len(t) + 1
  \/ \E s \in 1..Len(st) : LabelAt(t, n, st[s])

\* one attempt of the matcher with the match starting at position i
MatchAt(pat, t, i) ==
  IF ~LabelAt(t, i, pat.label) THEN NoMatch
  ELSE
  LET p == i + Len(pat.label)          \* position after the label
      e == RunEnd(t, p, "[\\s:]")         \* greedy [\s:]+ / [\s:]* ends before e
  IN
  CASE pat.kind = "line" ->
         \* [\s:]+ gives characters back until [^\n]+ can start
         LET Q == {q \in (p + 1)..e : NotNewline(CharAt(t, q))}
         IN  IF Q = {} THEN NoMatch
             ELSE Captured(SubSeq(t, MaxOf(Q), RunEnd(t, MaxOf(Q), "[^\\n]") - 1))
    [] pat.kind = "phone" ->
         LET Q == {q \in (p + 1)..e :
                     /\ IsDigit(CharAt(t, q))
                     /\ RunEnd(t, q + 1, "[\\d\\s]") - (q + 1) >= 7}
         IN  IF Q = {} THEN NoMatch
             ELSE Captured(SubSeq(t, MaxOf(Q), RunEnd(t, MaxOf(Q) + 1, "[\\d\\s]") - 1))
    [] pat.kind = "digits" ->
         LET a  == i + 4
             s1 == IF IsSpace(CharAt(t, a)) THEN 1 ELSE 0
             b  == a + s1 + 3
             s2 == IF IsSpace(CharAt(t, b)) THEN 1 ELSE 0
             c  == b + s2 + 3
         IN  IF /\ \A k \in i..(a - 1) : IsDigit(CharAt(t, k))
                /\ \A k \in (a + s1)..(b - 1) : IsDigit(CharAt(t, k))
                /\ \A k \in (b + s2)..(c - 1) : IsDigit(CharAt(t, k))
             THEN Captured(SubSeq(t, i, c - 1))
             ELSE NoMatch
    [] pat.kind = "section" ->
         \* [\s\S]+? takes one character, then grows until the lookahead holds
         LET Q == {q \in (p + 1)..e : q <= Len(t)}
         IN  IF Q = {} THEN NoMatch
             ELSE LET q == MaxOf(Q)
                      n == MinOf({m \in (q + 1)..(Len(t) + 1) : StopAt(t, m, pat.stops)})
                  IN  Captured(SubSeq(t, q, n - 1))
    [] pat.kind = "cost" ->
         LET Dollar(q) == IF CharAt(t, q) = "$" THEN 1 ELSE 0
             Q == {q \in p..e : IsDigit(CharAt(t, q + Dollar(q)))}
         IN  IF Q = {} THEN NoMatch
             ELSE LET d  == MaxOf(Q) + Dollar(MaxOf(Q))
                      de == RunEnd(t, d, "\\d")
                      fe == IF CharAt(t, de) = "." THEN RunEnd(t, de + 1, "\\d") ELSE de
                  IN  Captured(SubSeq(t, d, fe - 1))
    [] pat.kind = "rest" ->
         LET Q == {q \in (p + 1)..e : q <= Len(t)}
         IN  IF Q = {} THEN NoMatch
             ELSE Captured(SubSeq(t, MaxOf(Q), Len(t)))

\* String.prototype.match without the g flag: the leftmost start that succeeds
Match(pat, t) ==
  LET starts == {i \in 1..Len(t) : MatchAt(pat, t, i).ok}
  IN  IF starts = {} THEN NoMatch ELSE MatchAt(pat, t, MinOf(starts))

patterns ==
  [customerName  |-> <<LinePattern("Customer"), LinePattern("Name"), LinePattern("Client")>>,
   customerPhone |-> <<PhonePattern("Phone"), PhonePattern("Contact"), DigitsPattern>>,
   bikeModel     |-> <<LinePattern("Bike"), LinePattern("Model"),
                       LinePattern("Motorcycle"), LinePattern("Vehicle")>>,
   workRequired  |-> <<SectionPattern("Work Required", <<"Work Done", "Notes">>),
                       SectionPattern("Service Needed", <<"Work Done", "Notes">>),
                       SectionPattern("Issues", <<"Work Done", "Notes">>)>>,
   laborCost     |-> <<CostPattern("Labor"), CostPattern("Service Fee"), CostPattern("Work Cost")>>,
   partsCost     |-> <<CostPattern("Parts"), CostPattern("Materials"), CostPattern("Components")>>]

workDonePattern == SectionPattern("Work Done", <<"Notes">>)

notesPattern == RestPattern("Notes")

\* the loop run so that the last pattern that matches wins
TryLastFrom(patternGroup, t, k) ==
  LET hits == {j \in k..Len(patternGroup) : Match(patternGroup[j], t).ok}
  IN  IF hits = {} THEN "" ELSE Trim(Match(patternGroup[MaxOf(hits)], t).cap)

RECURSIVE TryFrom(_, _, _)
\* the for loop of tryPatterns from pattern k on
TryFrom(patternGroup, t, k) ==
  IF k > Len(patternGroup) THEN ""
  ELSE LET match == Match(patternGroup[k], t)
       IN  IF match.ok /\ match.cap # "" THEN Trim(match.cap)
           ELSE TryFrom(patternGroup, t, k + 1)

tryPatterns(patternGroup, t) == TryFrom(patternGroup, t, 1)

\* text.match(re)?.[1]?.trim()  (undefined is rendered as "")
MatchTrim(pat, t) ==
  LET match == Match(pat, t)
  IN  IF match.ok THEN Trim(match.cap) ELSE ""

\* the || default left out
StrOrNothing(a, b) == a

\* a || b on strings: the empty string is falsy
StrOr(a, b) == IF a = "" THEN b ELSE a

(***************************************************************************)
(* Numbers                                                                 *)
(*                                                                         *)
(* A JavaScript number is held as the numeral Number.prototype.toString    *)
(* gives for it: "80", "80.555", "0.30000000000000004", "1e+21", "-5",     *)
(* "Infinity", "NaN".  Conversions and sums work on natural numbers written *)
(* as tuples of decimal digits, most significant digit first (<<>> is 0),  *)
(* and round to the 53-bit significand of an IEEE 754 double.  SubSeq      *)
(* turns a function over 1..n into the tuple of its values.                *)
(***************************************************************************)

DigitVal(c) == CHOOSE v \in 0..9 : CharAt("0123456789", v + 1) = c

RECURSIVE NatOf(_)
\* value of a short string of digits
NatOf(s) ==
  IF s = "" THEN 0
  ELSE NatOf(SubSeq(s, 1, Len(s) - 1)) * 10 + DigitVal(CharAt(s, Len(s)))

\* the digits of a string of decimal digits
DigitsOf(str) == SubSeq([i \in 1..Len(str) |-> DigitVal(CharAt(str, i))], 1, Len(str))

\* digits without the leading zeros
StripZeros(lz) ==
  LET lzKeep == {i \in 1..Len(lz) : lz[i] # 0}
  IN  IF lzKeep = {} THEN <<>> ELSE SubSeq(lz, MinOf(lzKeep), Len(lz))

\* digits without the trailing zeros
StripTrailingZeros(tz) ==
  LET tzKeep == {i \in 1..Len(tz) : tz[i] # 0}
  IN  IF tzKeep = {} THEN <<>> ELSE SubSeq(tz, 1, MaxOf(tzKeep))

Zeros(count) == SubSeq([i \in 1..count |-> 0], 1, count)

\* 2 * d: the carry into a digit is 1 exactly when the digit below it is 5 or more
Dbl(d2) ==
  LET low2(i) == IF i < Len(d2) /\ d2[i + 1] >= 5 THEN 1 ELSE 0
      body2 == SubSeq([i \in 1..Len(d2) |-> (2 * d2[i] + low2(i)) % 10], 1, Len(d2))
  IN  IF d2 = <<>> THEN <<>>
      ELSE IF d2[1] >= 5 THEN <<1>> \o body2 ELSE body2

\* 5 * d: the carry into a digit is half the digit below it
Mul5(d5) ==
  LET low5(i) == IF i < Len(d5) THEN d5[i + 1] \div 2 ELSE 0
      body5 == SubSeq([i \in 1..Len(d5) |-> (5 * d5[i] + low5(i)) % 10], 1, Len(d5))
  IN  IF d5 = <<>> THEN <<>>
      ELSE IF d5[1] >= 2 THEN <<d5[1] \div 2>> \o body5 ELSE body5

RECURSIVE DblN(_, _)
\* 2^c * d
DblN(dn, cn) ==
  IF cn <= 0 \/ dn = <<>> THEN dn
  ELSE IF cn = 1 THEN Dbl(dn)
  ELSE DblN(DblN(dn, cn \div 2), cn - cn \div 2)

RECURSIVE Mul5N(_, _)
\* 5^c * d
Mul5N(dm, cm) ==
  IF cm <= 0 \/ dm = <<>> THEN dm
  ELSE IF cm = 1 THEN Mul5(dm)
  ELSE Mul5N(Mul5N(dm, cm \div 2), cm - cm \div 2)

\* a + b
AddDigits(a, b) ==
  LET width == MaxOf({Len(a), Len(b)})
      pa == Zeros(width - Len(a)) \o a
      pb == Zeros(width - Len(b)) \o b
      \* a carry leaves position j and passes every position between j and i
      carry(i) == \E j \in (i + 1)..width :
                    /\ pa[j] + pb[j] >= 10
                    /\ \A h \in (i + 1)..(j - 1) : pa[h] + pb[h] = 9
      sum == SubSeq([i \in 1..width |->
                       (pa[i] + pb[i] + (IF carry(i) THEN 1 ELSE 0)) % 10], 1, width)
  IN  IF a = <<>> THEN b
      ELSE IF b = <<>> THEN a
      ELSE IF carry(0) THEN <<1>> \o sum ELSE sum

\* a < b, for a and b without leading zeros
LessDigits(la, lb) ==
  \/ Len(la) < Len(lb)
  \/ /\ Len(la) = Len(lb)
     /\ \E i \in 1..Len(la) :
          /\ la[i] < lb[i]
          /\ \A h \in 1..(i - 1) : la[h] = lb[h]

\* 2^52 and 2^53
P52 == <<4, 5, 0, 3, 5, 9, 9, 6, 2, 7, 3, 7, 0, 4, 9, 6>>

P53 == <<9, 0, 0, 7, 1, 9, 9, 2, 5, 4, 7, 4, 0, 9, 9, 2>>

\* the decimal n * 10^(-k), k >= 0, without leading zeros and, while k > 0,
\* without trailing zeros
Dec(n, k) ==
  LET s == StripZeros(n)
      t == StripTrailingZeros(s)
      cut == MinOf({Len(s) - Len(t), k})
  IN  IF n = <<>> \/ s = <<>> THEN [n |-> <<>>, k |-> 0]
      ELSE [n |-> SubSeq(s, 1, Len(s) - cut), k |-> k - cut]

\* the digits before the decimal point
IntDigits(x) == IF Len(x.n) > x.k THEN SubSeq(x.n, 1, Len(x.n) - x.k) ELSE <<>>

\* digit j after the decimal point
FracDigit(x, j) ==
  LET i == Len(x.n) - x.k + j
  IN  IF i >= 1 /\ i <= Len(x.n) THEN x.n[i] ELSE 0

\* x * 2^c, for c of either sign
Scaled(x, c) ==
  IF c >= 0 THEN Dec(DblN(x.n, c), x.k) ELSE Dec(Mul5N(x.n, -c), x.k - c)

\* x * 2^c < 2^53
Below53(x, c) == LessDigits(IntDigits(Scaled(x, c)), P53)

RECURSIVE Normalize(_, _)
\* x times the power of two that brings it into [2^52, 2^53), and the
\* exponent s of that power; s stops at 1074, where the subnormal doubles
\* begin.  Three doublings add at most one digit, so the steps never pass
\* the interval.
Normalize(x, s) ==
  LET int == IntDigits(x)
      len == Len(x.n) - x.k
      down == IF len >= 18 THEN 3 * (len - 17)
              ELSE CHOOSE j \in 1..4 : Below53(x, -j) /\ (j = 1 \/ ~Below53(x, 1 - j))
      up == IF len <= 14 THEN 3 * (16 - len)
            ELSE CHOOSE j \in 1..6 : Below53(x, j) /\ (j = 6 \/ ~Below53(x, j + 1))
  IN  IF x.n = <<>> THEN [x |-> x, s |-> s]
      ELSE IF ~LessDigits(int, P53) THEN Normalize(Scaled(x, -down), s - down)
      ELSE IF LessDigits(int, P52) /\ s < 1074
      THEN LET c == MinOf({up, 1074 - s})
           IN  Normalize(Scaled(x, c), s + c)
      ELSE [x |-> x, s |-> s]

\* the double nearest to the decimal x > 0, ties to the even significand:
\* [m |-> significand, e |-> exponent] for m * 2^e, or infinite
Round53(x) ==
  LET Rounded(m, e) ==
        IF e > 971 THEN [inf |-> TRUE, m |-> <<>>, e |-> 0]
        ELSE [inf |-> FALSE, m |-> m, e |-> IF m = <<>> THEN 0 ELSE e]
      \* a significand rounded up to 2^53 is 2^52 with the next exponent
      Carried(m, s) == IF m = P53 THEN Rounded(P52, 1 - s) ELSE Rounded(m, -s)
      \* the fraction of nx is above one half, or is one half and int is odd
      Up(nx, int) ==
        \/ FracDigit(nx, 1) > 5
        \/ /\ FracDigit(nx, 1) = 5
           /\ \/ \E j \in 2..nx.k : FracDigit(nx, j) # 0
              \/ int # <<>> /\ int[Len(int)] % 2 = 1
      Significand(nx, int, s) ==
        Carried(IF Up(nx, int) THEN AddDigits(int, <<1>>) ELSE int, s)
      Of(norm) ==
        IF norm.x.n = <<>> THEN Rounded(<<>>, 0)
        ELSE Significand(norm.x, IntDigits(norm.x), norm.s)
  IN  Of(Normalize(x, 0))

\* the decimal that the double m * 2^e is
Expand(r) ==
  IF r.e >= 0 THEN Dec(DblN(r.m, r.e), 0) ELSE Dec(Mul5N(r.m, -r.e), -r.e)

\* x cut to nd significant digits, with one added to the last of them when
\* up: the digits, and the count of digits before the decimal point
RoundSig(x, nd, up) ==
  LET point == Len(x.n) - x.k
      Sig(d) == [d |-> StripTrailingZeros(d), point |-> point + Len(d) - nd]
  IN  IF Len(x.n) <= nd THEN [d |-> StripTrailingZeros(x.n), point |-> point]
      ELSE Sig(IF up THEN AddDigits(SubSeq(x.n, 1, nd), <<1>>) ELSE SubSeq(x.n, 1, nd))

\* of the two decimals of nd digits around x the upper one is the nearer; of
\* two equally near the one whose last digit is even
NearestIsUp(x, nd) ==
  /\ Len(x.n) > nd
  /\ \/ x.n[nd + 1] > 5
     \/ /\ x.n[nd + 1] = 5
        /\ \/ \E j \in (nd + 2)..Len(x.n) : x.n[j] # 0
           \/ x.n[nd] % 2 = 1

\* the decimal 0.d * 10^point
DecOfSig(d, point) ==
  IF point >= Len(d) THEN Dec(d \o Zeros(point - Len(d)), 0)
  ELSE Dec(d, Len(d) - point)

RECURSIVE ShortestFrom(_, _, _, _)
\* the first decimal that gives the double r back, looking from nd digits
\* on: of the two decimals of nd digits around x the nearer, then the other,
\* then those of one digit more.  x itself and the nearest decimal of 17
\* digits always give r back.
ShortestFrom(r, x, nd, first) ==
  LET Sure == Len(x.n) <= nd \/ nd >= 17
      Try(c) ==
        IF Sure \/ Round53(DecOfSig(c.d, c.point)) = r THEN c
        ELSE ShortestFrom(r, x, IF first THEN nd ELSE nd + 1, ~first)
  IN  Try(RoundSig(x, nd, NearestIsUp(x, nd) = first))

\* Number::toString: the decimal of the fewest significant digits that gives
\* the double r back and, of those, the nearest to its value x
Shortest(r, x) == ShortestFrom(r, x, 1, TRUE)

DigitChars == "0123456789"

RECURSIVE TextOfDigits(_, _, _)
\* the string of the digits d[lo..hi]
TextOfDigits(d, lo, hi) ==
  IF lo > hi THEN ""
  ELSE IF lo = hi THEN CharAt(DigitChars, d[lo] + 1)
  ELSE LET mid == (lo + hi) \div 2
       IN  TextOfDigits(d, lo, mid) \o TextOfDigits(d, mid + 1, hi)

TextOf(d) == TextOfDigits(d, 1, Len(d))

\* decimal digits of a natural number below 10000
SmallDigits(n) ==
  StripZeros(<<n \div 1000, (n \div 100) % 10, (n \div 10) % 10, n % 10>>)

\* Number::toString of 0.d * 10^point, d the significant digits
Format(d, point) ==
  IF d = <<>> THEN "0"
  ELSE IF Len(d) <= point /\ point <= 21 THEN TextOf(d \o Zeros(point - Len(d)))
  ELSE IF 0 < point /\ point <= 21
  THEN TextOf(SubSeq(d, 1, point)) \o "." \o TextOf(SubSeq(d, point + 1, Len(d)))
  ELSE IF -6 < point /\ point <= 0 THEN "0." \o TextOf(Zeros(-point) \o d)
  ELSE LET ex == point - 1
           tail == (IF ex < 0 THEN "e-" ELSE "e+")
                     \o TextOf(SmallDigits(IF ex < 0 THEN -ex ELSE ex))
       IN  IF Len(d) = 1 THEN TextOf(d) \o tail
           ELSE TextOf(SubSeq(d, 1, 1)) \o "." \o TextOf(SubSeq(d, 2, Len(d))) \o tail

\* the numeral of the double r
NumeralOfDouble(r) ==
  LET Text(c) == Format(c.d, c.point)
  IN  IF r.inf THEN "Infinity"
      ELSE IF r.m = <<>> THEN "0"
      ELSE Text(Shortest(r, Expand(r)))

\* the numeral of the double nearest to the decimal x >= 0; a decimal of at
\* most 15 significant digits is the shortest numeral of its own double
NumeralOfDec(x) ==
  LET sig == StripTrailingZeros(x.n)
      point == Len(x.n) - x.k
  IN  IF sig = <<>> THEN "0"
      ELSE IF Len(sig) <= 15 /\ point > -290 /\ point < 290 THEN Format(sig, point)
      ELSE NumeralOfDouble(Round53(x))

HexChars == "0123456789abcdef"

IsHexDigit(c) == \E v \in 1..16 : Canonicalize(c) = CharAt(HexChars, v)

HexVal(c) == (CHOOSE v \in 1..16 : Canonicalize(c) = CharAt(HexChars, v)) - 1

\* a natural number read from the text of a numeral: its sign, whether it is
\* a number at all, whether it is infinite, and otherwise its decimal
NotANumber == [nan |-> TRUE, neg |-> FALSE, inf |-> FALSE, x |-> Dec(<<>>, 0)]

\* the longest prefix of s, after leading white space, that is a
\* StrDecimalLiteral: sign, Infinity or digits with an optional fraction and
\* an optional exponent
ScanDecimal(s) ==
  LET Zero(neg) == [nan |-> FALSE, neg |-> neg, inf |-> FALSE, x |-> Dec(<<>>, 0)]
      Infinite(neg) == [nan |-> FALSE, neg |-> neg, inf |-> TRUE, x |-> Dec(<<>>, 0)]
      \* the digits n, fracLen of them after the point, times 10^ex
      Value(neg, n, fracLen, ex) ==
        IF n = <<>> \/ Len(n) - fracLen + ex < -330 THEN Zero(neg)
        ELSE IF Len(n) - fracLen + ex > 310 THEN Infinite(neg)
        ELSE [nan |-> FALSE, neg |-> neg, inf |-> FALSE,
              x |-> IF fracLen - ex < 0 THEN Dec(n \o Zeros(ex - fracLen), 0)
                    ELSE Dec(n, fracLen - ex)]
      \* an exponent of more than four digits is beyond every double
      ExpAbs(expDigits) ==
        IF Len(expDigits) > 4 THEN 10000
        ELSE IF expDigits = <<>> THEN 0
        ELSE NatOf(TextOf(expDigits))
      ExpSigned(p, expAbs) == IF CharAt(s, p + 1) = "-" THEN -expAbs ELSE expAbs
      \* e or E at p, an optional sign, the digits s[q..qe - 1]
      Exponent(p, q, qe) ==
        IF CharAt(s, p) \in {"e", "E"} /\ qe > q
        THEN ExpSigned(p, ExpAbs(StripZeros(DigitsOf(SubSeq(s, q, qe - 1)))))
        ELSE 0
      ExponentFrom(p, q) == Exponent(p, q, RunEnd(s, q, "\\d"))
      ExponentAt(p) ==
        ExponentFrom(p, IF CharAt(s, p + 1) \in {"+", "-"} THEN p + 2 ELSE p + 1)
      \* the digits s[i1..ie - 1] and, after a point at ie, the digits s[ie + 1..fe - 1]
      Digits(neg, i1, ie, dot, fe) ==
        IF ie = i1 /\ ~(dot /\ fe > ie + 1) THEN NotANumber
        ELSE Value(neg,
                   StripZeros(DigitsOf(SubSeq(s, i1, ie - 1))
                                \o (IF dot THEN DigitsOf(SubSeq(s, ie + 1, fe - 1)) ELSE <<>>)),
                   IF dot THEN fe - ie - 1 ELSE 0,
                   ExponentAt(IF dot /\ (ie > i1 \/ fe > ie + 1) THEN fe ELSE ie))
      Fraction(neg, i1, ie, dot) ==
        Digits(neg, i1, ie, dot, IF dot THEN RunEnd(s, ie + 1, "\\d") ELSE ie)
      Integer(neg, i1, ie) == Fraction(neg, i1, ie, CharAt(s, ie) = ".")
      Unsigned(neg, i1) ==
        IF SubSeq(s, i1, MinOf({Len(s), i1 + 7})) = "Infinity" THEN Infinite(neg)
        ELSE Integer(neg, i1, RunEnd(s, i1, "\\d"))
      Signed(i0) ==
        Unsigned(CharAt(s, i0) = "-", IF CharAt(s, i0) \in {"+", "-"} THEN i0 + 1 ELSE i0)
  IN  Signed(RunEnd(s, 1, "\\s"))

\* the numeral of a scanned number
NumeralOf(v) ==
  LET Signed(abs) == IF v.neg /\ abs # "0" THEN "-" \o abs ELSE abs
  IN  IF v.nan THEN "NaN"
      ELSE Signed(IF v.inf THEN "Infinity" ELSE NumeralOfDec(v.x))

\* parseFloat
parseFloat(s) == NumeralOf(ScanDecimal(s))

RECURSIVE HexDigits(_, _, _)
\* the decimal digits of the hexadecimal number s[lo..hi]
HexDigits(s, lo, hi) ==
  IF lo > hi THEN <<>>
  ELSE IF lo = hi THEN StripZeros(<<HexVal(CharAt(s, lo)) \div 10, HexVal(CharAt(s, lo)) % 10>>)
  ELSE LET mid == (lo + hi) \div 2
       IN  StripZeros(AddDigits(DblN(HexDigits(s, lo, mid), 4 * (hi - mid)),
                                HexDigits(s, mid + 1, hi)))

HexRunEnd(s, i) ==
  CHOOSE j \in i..(Len(s) + 1) :
    /\ ~IsHexDigit(CharAt(s, j))
    /\ \A h \in i..(j - 1) : IsHexDigit(CharAt(s, h))

\* parseInt(s) without a radix: white space, sign, then hexadecimal digits
\* after 0x or 0X and decimal digits otherwise
parseInt(s) ==
  LET i0 == RunEnd(s, 1, "\\s")
      neg == CharAt(s, i0) = "-"
      i1 == IF CharAt(s, i0) \in {"+", "-"} THEN i0 + 1 ELSE i0
      hex == CharAt(s, i1) = "0" /\ CharAt(s, i1 + 1) \in {"x", "X"}
      i2 == IF hex THEN i1 + 2 ELSE i1
      e == IF hex THEN HexRunEnd(s, i2) ELSE RunEnd(s, i2, "\\d")
      n == IF hex THEN HexDigits(s, i2, e - 1) ELSE DigitsOf(SubSeq(s, i2, e - 1))
  IN  IF e = i2 THEN "NaN"
      ELSE NumeralOf([nan |-> FALSE, neg |-> neg, inf |-> FALSE, x |-> Dec(n, 0)])

\* x || d on a number: NaN and 0 are falsy
NumOr(x, d) == IF x \in {"NaN", "0"} THEN d ELSE x

\* x is a multiple of 2^(-3) below 10^14: it is a double, and so is the sum
\* of two such numbers
SmallDyadic(x) ==
  /\ x.k <= 3
  /\ Len(x.n) <= 14
  /\ \A d \in {DblN(x.n, x.k)} : \A i \in 1..x.k : d[Len(d) + 1 - i] = 0

\* a + b on numbers that are not negative and not NaN: the double nearest to
\* the sum of the two doubles
Plus(a, b) ==
  LET Sum(u, v) ==
        LET k == MaxOf({u.k, v.k})
        IN  Dec(StripZeros(AddDigits(u.n \o Zeros(k - u.k), v.n \o Zeros(k - v.k))), k)
      Number(inf, x) == [nan |-> FALSE, neg |-> FALSE, inf |-> inf, x |-> x]
      OfDoubles(r) ==
        IF r[1].inf \/ r[2].inf THEN Number(TRUE, Dec(<<>>, 0))
        ELSE Number(FALSE, Sum(Expand(r[1]), Expand(r[2])))
      Of(x, y) ==
        IF x.n = <<>> THEN b
        ELSE IF y.n = <<>> THEN a
        ELSE NumeralOf(IF SmallDyadic(x) /\ SmallDyadic(y) THEN Number(FALSE, Sum(x, y))
                       ELSE OfDoubles([i \in 1..2 |-> Round53(IF i = 1 THEN x ELSE y)]))
  IN  IF a = "Infinity" \/ b = "Infinity" THEN "Infinity"
      ELSE Of(ScanDecimal(a).x, ScanDecimal(b).x)

(***************************************************************************)
(* parseJobSheetText                                                       *)
(***************************************************************************)

parseJobSheetText(t) ==
  [customerName  |-> StrOr(tryPatterns(patterns.customerName, t), "Unknown Customer"),
   customerPhone |-> StrOr(tryPatterns(patterns.customerPhone, t), "No Phone"),
   bikeModel     |-> StrOr(tryPatterns(patterns.bikeModel, t), "Unknown Model"),
   workRequired  |-> StrOr(tryPatterns(patterns.workRequired, t), "No work description"),
   workDone      |-> StrOr(MatchTrim(workDonePattern, t), ""),
   laborCost     |-> NumOr(parseFloat(tryPatterns(patterns.laborCost, t)), "0"),
   partsCost     |-> NumOr(parseFloat(tryPatterns(patterns.partsCost, t)), "0"),
   notes         |-> StrOr(MatchTrim(notesPattern, t), "")]

(***************************************************************************)
(* Recognized texts                                                        *)
(***************************************************************************)

\* longest free-form text, in lines
MaxLines == 2

Lines ==
  <<"Customer: John Jerrime",
    "Name: Bob",
    "Customer:",
    "Customer: ",
    "Customer: City Bike Hire",
    "Phone: 0411 056 876",
    "Ref 0298 765 432",
    "Bike: Trek Marlin 7",
    "Work Required: Fork service",
    "Work Required:",
    "Work Done: Hub clean",
    "Notes: S/T 27/6/2023",
    "Labor: $80",
    "Labor: free",
    "Service Fee: 30.50",
    "Parts: $210",
    "Total: $500">>

RECURSIVE JoinLines(_)
\* the lines ls separated by line breaks
JoinLines(ls) ==
  IF Len(ls) = 0 THEN ""
  ELSE IF Len(ls) = 1 THEN ls[1]
  ELSE ls[1] \o "\n" \o JoinLines(Tail(ls))

FreeTexts ==
  {JoinLines([k \in DOMAIN ix |-> Lines[ix[k]]]) :
     ix \in UNION {[1..n -> 1..Len(Lines)] : n \in 0..MaxLines}}

\* values written on a sheet of the worked example's layout
SheetValues ==
  [name     : {"John Jerrime", "Bob"},
   phone    : {"0411 056 876"},
   bike     : {"Trek Marlin 7"},
   required : {"Fork service"},
   done     : {"Fork Service\nHub clean", "Hub clean"},
   labor    : {[txt |-> "$80", val |-> "80"], [txt |-> "45.50", val |-> "45.5"],
               [txt |-> "80.555", val |-> "80.555"]},
   parts    : {[txt |-> "$210", val |-> "210"]},
   notes    : {"S/T 27/6/2023"}]

\* Customer, Phone, Bike, Work Required, Work Done, Labor, Parts, Notes
Sheet(v) ==
  JoinLines(<<"Customer: " \o v.name,
              "Phone: " \o v.phone,
              "Bike: " \o v.bike,
              "Work Required: " \o v.required,
              "Work Done: " \o v.done,
              "Labor: " \o v.labor.txt,
              "Parts: " \o v.parts.txt,
              "Notes: " \o v.notes>>)

SheetTexts == {Sheet(v) : v \in SheetValues}

Texts == FreeTexts \cup SheetTexts

(***************************************************************************)
(* The new-sale screen (src/app/sales/new.tsx) and the components it       *)
(* renders one step at a time: state                                       *)
(***************************************************************************)

VARIABLES
  route,         \* the screen the router shows
  currentStep,   \* useState currentStep of NewSaleScreen
  saleData,      \* useState saleData of NewSaleScreen
  bikeForm,      \* useState formData of BikeDetailsForm, while it is mounted
  bikeErrors,    \* useState errors of BikeDetailsForm
  photos,        \* useState photos of PhotoUpload, while it is mounted
  uploadError,   \* useState error of PhotoUpload
  processing,    \* useState processing of PhotoUpload
  uploadPc,      \* where takePhoto is: idle, camera
  saleForm       \* useState formData of SaleDetailsForm, while it is mounted

saleVars ==
  <<route, currentStep, saleData, bikeForm, bikeErrors, photos, uploadError,
    processing, uploadPc, saleForm>>

null == "null"

Null == [null |-> TRUE]

\* the state of a component that is not mounted
Unmounted == [unmounted |-> TRUE]

\* the errors object {}
NoErrors == [f \in {} |-> ""]

\* { ...a, ...b }
Merge(a, b) ==
  [k \in DOMAIN a \cup DOMAIN b |-> IF k \in DOMAIN b THEN b[k] ELSE a[k]]

\* new Date().getFullYear() and new Date().toISOString().split('T')[0]
CurrentYear == "2026"

Today == "2026-10-30"

\* the initial formData of BikeDetailsForm
BikeFormDefaults(initialData) ==
  Merge([serialNumber |-> "", type |-> "", brand |-> "", year |-> CurrentYear,
         size |-> "", model |-> "", color |-> ""], initialData)

\* the initial formData of SaleDetailsForm
SaleFormDefaults(initialData) ==
  Merge([soldBy |-> "", isNewBike |-> TRUE, dateSold |-> Today], initialData)

SaleInit ==
  /\ route = "/sales/new"
  /\ currentStep = "bike"
  /\ saleData = [photos |-> <<>>]
  /\ bikeForm = BikeFormDefaults([photos |-> <<>>])
  /\ bikeErrors = NoErrors
  /\ photos = <<>>
  /\ uploadError = null
  /\ processing = FALSE
  /\ uploadPc = "idle"
  /\ saleForm = Unmounted

(***************************************************************************)
(* ClientForm (src/components/clients/ClientForm.tsx): state               *)
(***************************************************************************)

VARIABLES
  clientForm,    \* useState formData of ClientForm
  clientErrors,  \* useState errors of ClientForm
  clientSubmits  \* arguments of the onSubmit calls of ClientForm

clientVars == <<clientForm, clientErrors, clientSubmits>>

ClientInit ==
  /\ clientForm = [name |-> "", mobile |-> "", email |-> "", bikeSerialNumbers |-> <<>>]
  /\ clientErrors = NoErrors
  /\ clientSubmits = <<>>

(***************************************************************************)
(* The Firestore collections, SalesForm (src/unnamed/part_002) and         *)
(* ClientList (src/components/clients/ClientForm.tsx): state               *)
(***************************************************************************)

VARIABLES
  bikeStore,         \* documents of the bikes collection, by id
  clientStore,       \* documents of the clients collection, by id
  saleStore          \* documents of the sales collection, in order of creation

storeVars == <<bikeStore, clientStore, saleStore>>

VARIABLE
  ignoreUndefinedProperties  \* the setting of the Firestore instance db, which
                             \* lib/firebase makes: whether a field whose value is
                             \* undefined is left out of a write or refused

VARIABLES
  formStep,          \* useState step of SalesForm
  loading,           \* useState loading of SalesForm
  availableBikes,    \* useState availableBikes
  availableClients,  \* useState availableClients
  salesFormData,     \* useState formData of SalesForm
  fetchPc,           \* where fetchData is: pending, done, failed
  submits,           \* one record for each handleSubmit call that went past its
                     \* check: pc, where it is (addDoc, updateDoc, ended); form,
                     \* the formData it was called with; data, its saleData; id,
                     \* its saleRef.id
  alert,             \* the alert shown last
  salesRoute         \* form while SalesForm is shown, back after router.back()

salesVars ==
  <<formStep, loading, availableBikes, availableClients, salesFormData, fetchPc,
    submits, alert, salesRoute>>

VARIABLES
  clients,           \* useState clients of ClientList
  bikes,             \* useState bikes of ClientList
  listLoading,       \* useState loading of ClientList
  listError,         \* useState error of ClientList
  listFetchPc,       \* where fetchData of ClientList is: pending, done
  selectedClient,    \* useState selectedClient
  editMode,          \* useState editMode
  editedData,        \* useState editedData
  deletes,           \* one record for each handleDelete call: pc, where it is
                     \* (confirm, canceled, deleteDoc, updateDoc, ended);
                     \* clientId, its argument; bikeIds, the bikes that the
                     \* clients and bikes of its render give the client;
                     \* pending, the bikes whose updateDoc has not settled
  saves,             \* one record for each handleSave call: pc, where it is
                     \* (updateDoc, ended); clientId, data and clients, the
                     \* selectedClient.id, editedData and clients of its render
  listAlert          \* the alert ClientList showed last

listVars ==
  <<clients, bikes, listLoading, listError, listFetchPc, selectedClient, editMode,
    editedData, deletes, saves, listAlert>>

\* new Date().toISOString()
NowIso == "2026-10-30T09:00:00.000Z"

BikeDocs ==
  [b1 |-> [serialNumber |-> "WTU123", brand |-> "Trek", model |-> "Marlin 7",
           year |-> 2022, color |-> "Red", type |-> "MTB", size |-> "M",
           photos |-> <<>>, sold |-> FALSE, suggestedPrice |-> 0,
           purchasePrice |-> 450, clientId |-> "c1", clientName |-> "Ann"],
   b2 |-> [serialNumber |-> "GNT456", brand |-> "Giant", model |-> "Escape 3",
           year |-> 2021, color |-> "Blue", type |-> "Hybrid", size |-> "L",
           photos |-> <<>>, sold |-> FALSE, suggestedPrice |-> 0,
           purchasePrice |-> 0, clientId |-> "c1", clientName |-> "Ann"],
   b3 |-> [serialNumber |-> "SPZ789", brand |-> "Specialized", model |-> "Sirrus",
           year |-> 2020, color |-> "Black", type |-> "Hybrid", size |-> "S",
           photos |-> <<>>, sold |-> TRUE, suggestedPrice |-> 600,
           purchasePrice |-> 500, clientId |-> "c2", clientName |-> "Bob"]]

ClientDocs ==
  [c1 |-> [name |-> "Ann", phone |-> "0411 056 876", email |-> "ann@example.com",
           bikeSerialNumbers |-> <<"WTU123", "GNT456">>],
   c2 |-> [name |-> "Bob", phone |-> "0298 765 432", email |-> "",
           bikeSerialNumbers |-> <<"SPZ789">>],
   c3 |-> [name |-> "Cy", phone |-> "0400 000 000", email |-> "",
           bikeSerialNumbers |-> <<>>]]

\* snapshot.docs.map(doc => ({ id: doc.id, ...doc.data() })), as a set
DocsWithId(store) == {Merge([id |-> k], store[k]) : k \in DOMAIN store}

StoreInit ==
  /\ ignoreUndefinedProperties \in BOOLEAN
  /\ bikeStore = BikeDocs
  /\ clientStore = ClientDocs
  /\ saleStore = <<>>

SalesFormInit ==
  /\ formStep = "select"
  /\ loading = TRUE
  /\ availableBikes = {}
  /\ availableClients = {}
  /\ salesFormData = [isNewBike |-> FALSE, photos |-> <<>>, saleDate |-> NowIso,
                      status |-> "completed"]
  /\ fetchPc = "pending"
  /\ submits = <<>>
  /\ alert = null
  /\ salesRoute = "form"

ClientListInit ==
  /\ clients = <<>>
  /\ bikes = {}
  /\ listLoading = TRUE
  /\ listError = ""
  /\ listFetchPc = "pending"
  /\ selectedClient = Null
  /\ editMode = FALSE
  /\ editedData = NoErrors
  /\ deletes = <<>>
  /\ saves = <<>>
  /\ listAlert = null

(***************************************************************************)
(* JobSheetScanner                                                         *)
(*                                                                         *)
(* The capture button calls takePhoto whenever it is rendered, which is    *)
(* while photo is null, whether or not an earlier invocation still awaits  *)
(* the camera; every invocation is followed on its own.                    *)
(***************************************************************************)

VARIABLES
  photo,         \* useState photo
  isProcessing,  \* useState isProcessing
  error,         \* useState error
  runs,          \* one record for each takePhoto invocation: pc, where it is
                 \* (camera, canceled, rejected, createWorker, recognize,
                 \* terminate, addDoc, ended); worker, its tesseract worker
                 \* (none, held, terminated); text, what recognize resolved
                 \* with; parsedData, the result of parseJobSheetText;
                 \* jobData, the record handed to addDoc
  jobs,          \* documents of the jobs collection
  completed      \* arguments of the onComplete calls

scanVars == <<photo, isProcessing, error, runs, jobs, completed>>

\* what the scanner leaves alone
notScanVars ==
  <<saleVars, clientVars, storeVars, salesVars, listVars, ignoreUndefinedProperties>>

\* what the new-sale screen, ClientForm, SalesForm and ClientList leave alone
notSaleVars ==
  <<scanVars, clientVars, storeVars, salesVars, listVars, ignoreUndefinedProperties>>

notClientVars ==
  <<scanVars, saleVars, storeVars, salesVars, listVars, ignoreUndefinedProperties>>

notSalesVars == <<scanVars, saleVars, clientVars, listVars, ignoreUndefinedProperties>>

notListVars ==
  <<scanVars, saleVars, clientVars, salesVars, saleStore, ignoreUndefinedProperties>>

vars ==
  <<scanVars, saleVars, clientVars, storeVars, salesVars, listVars, ignoreUndefinedProperties>>

\* most takePhoto invocations in a behaviour
MaxTakes == 2

Uris == {"file:///sheet.jpg"}

\* texts recognized when the button was pressed more than once
ScanTexts == {"Customer: John Jerrime\nPhone: 0411 056 876\nBike: Trek Marlin 7",
              "Bike: Trek Marlin 7"}

RequiredFieldsMessage == "Could not extract required fields from job sheet"

Init ==
  /\ photo = null
  /\ isProcessing = FALSE
  /\ error = null
  /\ runs = <<>>
  /\ jobs = <<>>
  /\ completed = <<>>
  /\ SaleInit
  /\ ClientInit
  /\ StoreInit
  /\ SalesFormInit
  /\ ClientListInit

\* n || 0
NumOrZero(n) == NumOr(n, "0")

\* totalCost taken from the labour figure alone
buildJobDataLaborOnly(parsed) ==
  [customerName  |-> StrOr(parsed.customerName, "Unknown Customer"),
   customerPhone |-> StrOr(parsed.customerPhone, "No Phone"),
   bikeModel     |-> StrOr(parsed.bikeModel, "Unknown Model"),
   workRequired  |-> StrOr(parsed.workRequired, "No work description"),
   workDone      |-> StrOr(parsed.workDone, ""),
   laborCost     |-> parsed.laborCost,
   partsCost     |-> parsed.partsCost,
   totalCost     |-> parsed.laborCost,
   notes         |-> StrOr(parsed.notes, ""),
   status        |-> "pending",
   createdAt     |-> "serverTimestamp"]

\* lines 83-95
buildJobData(parsed) ==
  [customerName  |-> StrOr(parsed.customerName, "Unknown Customer"),
   customerPhone |-> StrOr(parsed.customerPhone, "No Phone"),
   bikeModel     |-> StrOr(parsed.bikeModel, "Unknown Model"),
   workRequired  |-> StrOr(parsed.workRequired, "No work description"),
   workDone      |-> StrOr(parsed.workDone, ""),
   laborCost     |-> NumOrZero(parsed.laborCost),
   partsCost     |-> NumOrZero(parsed.partsCost),
   totalCost     |-> Plus(NumOrZero(parsed.laborCost), NumOrZero(parsed.partsCost)),
   notes         |-> StrOr(parsed.notes, ""),
   status        |-> "pending",
   createdAt     |-> "serverTimestamp"]

\* the catch and finally blocks of processJobSheet, for invocation i
Fail(i, message) ==
  /\ error' = "OCR Processing Failed: " \o message
  /\ isProcessing' = FALSE
  /\ runs' = [runs EXCEPT ![i].pc = "ended"]

\* onPress of the capture button, which is rendered while there is no photo:
\* takePhoto runs up to await launchCameraAsync
takePhoto ==
  /\ photo = null
  /\ Len(runs) < MaxTakes
  /\ runs' = Append(runs, [pc |-> "camera", worker |-> "none", text |-> "",
                           parsedData |-> Null, jobData |-> Null])
  /\ UNCHANGED <<photo, isProcessing, error, jobs, completed>>
  /\ UNCHANGED notScanVars

\* launchCameraAsync of invocation i resolves with canceled
CameraCanceled(i) ==
  /\ runs[i].pc = "camera"
  /\ runs' = [runs EXCEPT ![i].pc = "canceled"]
  /\ UNCHANGED <<photo, isProcessing, error, jobs, completed>>
  /\ UNCHANGED notScanVars

\* launchCameraAsync of invocation i rejects
CameraRejected(i) ==
  /\ runs[i].pc = "camera"
  /\ error' = "Failed to take photo. Please try again."
  /\ runs' = [runs EXCEPT ![i].pc = "rejected"]
  /\ UNCHANGED <<photo, isProcessing, jobs, completed>>
  /\ UNCHANGED notScanVars

\* launchCameraAsync of invocation i resolves with an asset: setPhoto, then
\* processJobSheet runs up to its first await
CameraCaptured(i, uri) ==
  /\ runs[i].pc = "camera"
  /\ photo' = uri
  /\ isProcessing' = TRUE
  /\ error' = null
  /\ runs' = [runs EXCEPT ![i].pc = "createWorker"]
  /\ UNCHANGED <<jobs, completed>>
  /\ UNCHANGED notScanVars

CreateWorkerResolved(i) ==
  /\ runs[i].pc = "createWorker"
  /\ runs' = [runs EXCEPT ![i].pc = "recognize", ![i].worker = "held"]
  /\ UNCHANGED <<photo, isProcessing, error, jobs, completed>>
  /\ UNCHANGED notScanVars

CreateWorkerRejected(i) ==
  /\ runs[i].pc = "createWorker"
  /\ Fail(i, "createWorker failed")
  /\ UNCHANGED <<photo, jobs, completed>>
  /\ UNCHANGED notScanVars

\* worker.recognize resolves; worker.terminate is called
RecognizeResolved(i, t) ==
  /\ runs[i].pc = "recognize"
  /\ runs' = [runs EXCEPT ![i].pc = "terminate", ![i].text = t]
  /\ UNCHANGED <<photo, isProcessing, error, jobs, completed>>
  /\ UNCHANGED notScanVars

\* worker.recognize rejects: control goes to catch, terminate is not called
RecognizeRejected(i) ==
  /\ runs[i].pc = "recognize"
  /\ Fail(i, "recognize failed")
  /\ UNCHANGED <<photo, jobs, completed>>
  /\ UNCHANGED notScanVars

\* extraction started without the worker having been terminated
ExtractWhileHeld(i) ==
  /\ runs[i].pc = "terminate"
  /\ \A parsed \in {parseJobSheetText(runs[i].text)} :
       runs' = [runs EXCEPT ![i].pc = "addDoc", ![i].parsedData = parsed,
                            ![i].jobData = buildJobData(parsed)]
  /\ UNCHANGED <<photo, isProcessing, error, jobs, completed>>
  /\ UNCHANGED notScanVars

\* worker.terminate resolves; lines 78-97 run up to the await of addDoc
TerminateResolved(i) ==
  /\ runs[i].pc = "terminate"
  /\ \A parsed \in {parseJobSheetText(runs[i].text)} :
       IF parsed.customerName = "" \/ parsed.customerPhone = "" \/ parsed.bikeModel = ""
       THEN /\ error' = "OCR Processing Failed: " \o RequiredFieldsMessage
            /\ isProcessing' = FALSE
            /\ runs' = [runs EXCEPT ![i].pc = "ended", ![i].worker = "terminated",
                                    ![i].parsedData = parsed]
       ELSE /\ runs' = [runs EXCEPT ![i].pc = "addDoc", ![i].worker = "terminated",
                                    ![i].parsedData = parsed,
                                    ![i].jobData = buildJobData(parsed)]
            /\ UNCHANGED <<isProcessing, error>>
  /\ UNCHANGED <<photo, jobs, completed>>
  /\ UNCHANGED notScanVars

\* worker.terminate rejects: control goes to catch before any extraction
TerminateRejected(i) ==
  /\ runs[i].pc = "terminate"
  /\ Fail(i, "terminate failed")
  /\ UNCHANGED <<photo, jobs, completed>>
  /\ UNCHANGED notScanVars

\* a catch block that hands the job to the caller all the same
AddDocRejectedCompleting(i) ==
  /\ runs[i].pc = "addDoc"
  /\ Fail(i, "addDoc failed")
  /\ completed' = Append(completed, [id |-> Len(jobs) + 1, job |-> runs[i].jobData])
  /\ UNCHANGED <<photo, jobs>>
  /\ UNCHANGED notScanVars

\* addDoc resolves with the new document; onComplete, then finally
AddDocResolved(i) ==
  /\ runs[i].pc = "addDoc"
  /\ jobs' = Append(jobs, runs[i].jobData)
  /\ completed' = Append(completed, [id |-> Len(jobs) + 1, job |-> runs[i].jobData])
  /\ isProcessing' = FALSE
  /\ runs' = [runs EXCEPT ![i].pc = "ended"]
  /\ UNCHANGED <<photo, error>>
  /\ UNCHANGED notScanVars

AddDocRejected(i) ==
  /\ runs[i].pc = "addDoc"
  /\ Fail(i, "addDoc failed")
  /\ UNCHANGED <<photo, jobs, completed>>
  /\ UNCHANGED notScanVars

\* the texts recognize resolves with: the whole pool while the button was
\* pressed once, the two of ScanTexts after a second press
RecognizedTexts == IF Len(runs) = 1 THEN Texts ELSE ScanTexts

Next ==
  \/ takePhoto
  \/ \E i \in DOMAIN runs : CameraCanceled(i)
  \/ \E i \in DOMAIN runs : CameraRejected(i)
  \/ \E i \in DOMAIN runs : \E uri \in Uris : CameraCaptured(i, uri)
  \/ \E i \in DOMAIN runs : CreateWorkerResolved(i)
  \/ \E i \in DOMAIN runs : CreateWorkerRejected(i)
  \/ \E i \in DOMAIN runs : \E t \in RecognizedTexts : RecognizeResolved(i, t)
  \/ \E i \in DOMAIN runs : RecognizeRejected(i)
  \/ \E i \in DOMAIN runs : TerminateResolved(i)
  \/ \E i \in DOMAIN runs : TerminateRejected(i)
  \/ \E i \in DOMAIN runs : AddDocResolved(i)
  \/ \E i \in DOMAIN runs : AddDocRejected(i)

Spec == Init /\ [][Next]_vars

(***************************************************************************)
(* The new-sale screen: handlers                                           *)
(***************************************************************************)

BikeFieldValues ==
  [serialNumber |-> {"", "WTU123"}, brand |-> {"", "Trek"}, model |-> {"", "Marlin 7"},
   size |-> {"", "M"}, color |-> {"", "Red"}]

YearTexts == {"2024", "20x", "", "-5", " 12", "0x10"}

SaleFieldValues == [dateSold |-> {Today, ""}, soldBy |-> {"", "Sam"}]

PhotoUris == {"file:///photo1.jpg", "file:///photo2.jpg"}

BikeErrorMessages ==
  [serialNumber |-> "Serial number is required",
   brand        |-> "Brand is required",
   model        |-> "Model is required"]

TakePhotoFailedMessage == "Failed to take photo. Please try again."

\* onChangeText of a text input of BikeDetailsForm
EditBikeField(field, value) ==
  /\ route = "/sales/new"
  /\ currentStep = "bike"
  /\ bikeForm' = [bikeForm EXCEPT ![field] = value]
  /\ UNCHANGED <<route, currentStep, saleData, bikeErrors, photos, uploadError,
                 processing, uploadPc, saleForm>>
  /\ UNCHANGED notSaleVars

\* onChangeText of the year input
EditBikeYear(t) ==
  /\ route = "/sales/new"
  /\ currentStep = "bike"
  /\ bikeForm' = [bikeForm EXCEPT !.year = NumOr(parseInt(t), "0")]
  /\ UNCHANGED <<route, currentStep, saleData, bikeErrors, photos, uploadError,
                 processing, uploadPc, saleForm>>
  /\ UNCHANGED notSaleVars

\* the errors validate records for a formData
validate(formData) ==
  [f \in {g \in DOMAIN BikeErrorMessages : formData[g] = ""} |-> BikeErrorMessages[f]]

\* handleSubmit of BikeDetailsForm; when the form is valid, handleBikeSubmit
\* of the screen, which renders PhotoUpload with saleData.photos
SubmitBike ==
  /\ route = "/sales/new"
  /\ currentStep = "bike"
  /\ IF DOMAIN validate(bikeForm) = {}
     THEN /\ saleData' = Merge(saleData, bikeForm)
          /\ currentStep' = "photos"
          /\ bikeForm' = Unmounted
          /\ bikeErrors' = NoErrors
          /\ photos' = saleData'.photos
          /\ uploadError' = null
          /\ processing' = FALSE
          /\ uploadPc' = "idle"
     ELSE /\ bikeErrors' = validate(bikeForm)
          /\ UNCHANGED <<currentStep, saleData, bikeForm, photos, uploadError,
                         processing, uploadPc>>
  /\ UNCHANGED <<route, saleForm>>
  /\ UNCHANGED notSaleVars

\* takePhoto of PhotoUpload up to the await of launchCameraAsync
TakePhoto ==
  /\ route = "/sales/new"
  /\ currentStep = "photos"
  /\ ~processing
  /\ processing' = TRUE
  /\ uploadPc' = "camera"
  /\ UNCHANGED <<route, currentStep, saleData, bikeForm, bikeErrors, photos,
                 uploadError, saleForm>>
  /\ UNCHANGED notSaleVars

\* launchCameraAsync resolves with canceled; finally
LaunchCameraCanceled ==
  /\ uploadPc = "camera"
  /\ processing' = FALSE
  /\ uploadPc' = "idle"
  /\ UNCHANGED <<route, currentStep, saleData, bikeForm, bikeErrors, photos,
                 uploadError, saleForm>>
  /\ UNCHANGED notSaleVars

\* launchCameraAsync rejects; catch, finally
LaunchCameraRejected ==
  /\ uploadPc = "camera"
  /\ uploadError' = TakePhotoFailedMessage
  /\ processing' = FALSE
  /\ uploadPc' = "idle"
  /\ UNCHANGED <<route, currentStep, saleData, bikeForm, bikeErrors, photos, saleForm>>
  /\ UNCHANGED notSaleVars

\* handlePhotosSubmit going on to the review step
handlePhotosSubmitToReview(newPhotos) ==
  /\ saleData' = Merge(saleData, [photos |-> newPhotos])
  /\ currentStep' = "review"
  /\ saleForm' = Unmounted
  /\ photos' = <<>>
  /\ uploadError' = null
  /\ processing' = FALSE
  /\ uploadPc' = "idle"

\* handlePhotosSubmit of the screen, called as onSubmit by PhotoUpload: the
\* screen stores the photos and renders SaleDetailsForm in place of
\* PhotoUpload
handlePhotosSubmit(newPhotos) ==
  /\ saleData' = Merge(saleData, [photos |-> newPhotos])
  /\ currentStep' = "sale"
  /\ saleForm' = SaleFormDefaults(saleData')
  /\ photos' = <<>>
  /\ uploadError' = null
  /\ processing' = FALSE
  /\ uploadPc' = "idle"

\* launchCameraAsync resolves with a photo: setPhotos, onSubmit, setError,
\* finally
LaunchCameraResolved(uri) ==
  /\ uploadPc = "camera"
  /\ handlePhotosSubmit(Append(photos, uri))
  /\ UNCHANGED <<route, bikeForm, bikeErrors>>
  /\ UNCHANGED notSaleVars

\* removePhoto of PhotoUpload; its button is rendered once per photo.  The
\* screen mounts PhotoUpload with saleData.photos, which is empty until the
\* first onSubmit, and the first onSubmit unmounts PhotoUpload, so no run of
\* the screen takes this step: it is no disjunct of NextSale.
RemovePhoto(index) ==
  /\ route = "/sales/new"
  /\ currentStep = "photos"
  /\ ~processing
  /\ index \in 1..Len(photos)
  /\ handlePhotosSubmit(SubSeq(photos, 1, index - 1) \o SubSeq(photos, index + 1, Len(photos)))
  /\ UNCHANGED <<route, bikeForm, bikeErrors>>
  /\ UNCHANGED notSaleVars

\* onChangeText of a text input of SaleDetailsForm
EditSaleField(field, value) ==
  /\ route = "/sales/new"
  /\ currentStep = "sale"
  /\ saleForm' = [saleForm EXCEPT ![field] = value]
  /\ UNCHANGED <<route, currentStep, saleData, bikeForm, bikeErrors, photos,
                 uploadError, processing, uploadPc>>
  /\ UNCHANGED notSaleVars

\* onValueChange of the New Bike switch
SetNewBike(value) ==
  /\ route = "/sales/new"
  /\ currentStep = "sale"
  /\ saleForm' = [saleForm EXCEPT !.isNewBike = value]
  /\ UNCHANGED <<route, currentStep, saleData, bikeForm, bikeErrors, photos,
                 uploadError, processing, uploadPc>>
  /\ UNCHANGED notSaleVars

\* handleSubmit of SaleDetailsForm and handleSaleSubmit of the screen
SubmitSale ==
  /\ route = "/sales/new"
  /\ currentStep = "sale"
  /\ saleData' = Merge(saleData, saleForm)
  /\ currentStep' = "review"
  /\ saleForm' = Unmounted
  /\ UNCHANGED <<route, bikeForm, bikeErrors, photos, uploadError, processing, uploadPc>>
  /\ UNCHANGED notSaleVars

\* onSubmit of SaleReview: handleSaleComplete of the screen
CompleteSale ==
  /\ route = "/sales/new"
  /\ currentStep = "review"
  /\ route' = "/"
  /\ UNCHANGED <<currentStep, saleData, bikeForm, bikeErrors, photos, uploadError,
                 processing, uploadPc, saleForm>>
  /\ UNCHANGED notSaleVars

NextSale ==
  \/ \E field \in DOMAIN BikeFieldValues :
       \E value \in BikeFieldValues[field] : EditBikeField(field, value)
  \/ \E t \in YearTexts : EditBikeYear(t)
  \/ SubmitBike
  \/ TakePhoto
  \/ LaunchCameraCanceled
  \/ LaunchCameraRejected
  \/ \E uri \in PhotoUris : LaunchCameraResolved(uri)
  \/ \E field \in DOMAIN SaleFieldValues :
       \E value \in SaleFieldValues[field] : EditSaleField(field, value)
  \/ \E value \in BOOLEAN : SetNewBike(value)
  \/ SubmitSale
  \/ CompleteSale

SpecSale == Init /\ [][NextSale]_vars

(***************************************************************************)
(* ClientForm: handlers                                                    *)
(***************************************************************************)

MaxSubmits == 2

ClientFieldValues ==
  [name   |-> {"", "Ann"},
   mobile |-> {"", "0411 056 876"},
   email  |-> {"", "ann@example.com", "ann@example", "ann@.com", "ann@example.",
               "@example.com", "ann lee@example.com", "ann@@example.com",
               "ann@mail.example.com"}]

ClientErrorMessages ==
  [name   |-> "Name is required",
   mobile |-> "Mobile number is required",
   email  |-> "Invalid email address"]

\* validateEmail accepting every text that holds an @
validateEmailAtOnly(email) == \E i \in 1..Len(email) : CharAt(email, i) = "@"

\* /^[^\s@]+@[^\s@]+\.[^\s@]+$/ : the first run of [^\s@] ends on the @, the
\* second run reaches the end of the text, and backtracking finds a point
\* in it with a character of the run on either side
validateEmail(email) ==
  LET at  == RunEnd(email, 1, "[^\\s@]")
      end == RunEnd(email, at + 1, "[^\\s@]")
  IN  /\ at > 1
      /\ CharAt(email, at) = "@"
      /\ end = Len(email) + 1
      /\ \E dot \in (at + 2)..(Len(email) - 1) : CharAt(email, dot) = "."

\* the fields validate of ClientForm finds wrong
InvalidClientFields(formData) ==
  {f \in {"name", "mobile"} : formData[f] = ""}
    \cup (IF formData.email # "" /\ ~validateEmail(formData.email) THEN {"email"} ELSE {})

\* onChangeText of the name and email inputs, onChange of PhoneInput
EditClientField(field, value) ==
  /\ clientForm' = [clientForm EXCEPT ![field] = value]
  /\ UNCHANGED <<clientErrors, clientSubmits>>
  /\ UNCHANGED notClientVars

\* handleSubmit of ClientForm: validate, then onSubmit when nothing is wrong
SubmitClient ==
  /\ Len(clientSubmits) < MaxSubmits
  /\ clientErrors' = [f \in InvalidClientFields(clientForm) |-> ClientErrorMessages[f]]
  /\ clientSubmits' = IF InvalidClientFields(clientForm) = {}
                      THEN Append(clientSubmits, clientForm)
                      ELSE clientSubmits
  /\ UNCHANGED clientForm
  /\ UNCHANGED notClientVars

NextClient ==
  \/ \E field \in DOMAIN ClientFieldValues :
       \E value \in ClientFieldValues[field] : EditClientField(field, value)
  \/ SubmitClient

SpecClient == Init /\ [][NextClient]_vars

(***************************************************************************)
(* SalesForm: handlers                                                     *)
(***************************************************************************)

MaxSales == 2

RequiredFieldsAlert == "Please fill in all required fields"

SaleRecordedAlert == "Sale recorded successfully"

SaleFailedAlert == "Failed to record sale"

LoadFailedAlert == "Failed to load data"

\* rec[k] is a non-empty string, a number other than 0
StrSet(rec, k) == k \in DOMAIN rec /\ rec[k] # ""

NumSet(rec, k) == k \in DOMAIN rec /\ rec[k] # 0

\* both getDocs resolve: the unsold bikes and the clients are kept
SalesFetchResolved ==
  /\ fetchPc = "pending"
  /\ availableBikes' = {b \in DocsWithId(bikeStore) : ~b.sold}
  /\ availableClients' = DocsWithId(clientStore)
  /\ loading' = FALSE
  /\ fetchPc' = "done"
  /\ UNCHANGED <<formStep, salesFormData, submits, alert, salesRoute>>
  /\ UNCHANGED <<storeVars, notSalesVars>>

\* a getDocs rejects: catch
SalesFetchRejected ==
  /\ fetchPc = "pending"
  /\ alert' = LoadFailedAlert
  /\ fetchPc' = "failed"
  /\ UNCHANGED <<formStep, loading, availableBikes, availableClients, salesFormData,
                 submits, salesRoute>>
  /\ UNCHANGED <<storeVars, notSalesVars>>

\* the form is rendered and the success alert, which is modal, does not wait
\* for its OK
FormShown == salesRoute = "form" /\ ~loading /\ alert # SaleRecordedAlert

handleBikeSelect(bike) ==
  /\ FormShown
  /\ formStep = "select"
  /\ bike \in availableBikes
  /\ salesFormData' =
       Merge(salesFormData,
             [bikeId |-> bike.id, brand |-> bike.brand, model |-> bike.model,
              serialNumber |-> bike.serialNumber, year |-> bike.year,
              color |-> bike.color, type |-> bike.type, size |-> bike.size,
              photos |-> bike.photos,
              price |-> IF bike.suggestedPrice # 0 THEN bike.suggestedPrice
                        ELSE bike.purchasePrice])
  /\ formStep' = "details"
  /\ UNCHANGED <<loading, availableBikes, availableClients, fetchPc, submits, alert, salesRoute>>
  /\ UNCHANGED <<storeVars, notSalesVars>>

handleManualEntry ==
  /\ FormShown
  /\ formStep = "select"
  /\ salesFormData' = Merge(salesFormData, [isNewBike |-> TRUE])
  /\ formStep' = "details"
  /\ UNCHANGED <<loading, availableBikes, availableClients, fetchPc, submits, alert, salesRoute>>
  /\ UNCHANGED <<storeVars, notSalesVars>>

handleClientSelect(client) ==
  /\ FormShown
  /\ formStep = "details"
  /\ client \in availableClients
  /\ salesFormData' =
       Merge(salesFormData,
             [clientId |-> client.id, clientName |-> client.name,
              clientPhone |-> client.phone, clientEmail |-> client.email])
  /\ UNCHANGED <<formStep, loading, availableBikes, availableClients, fetchPc,
                 submits, alert, salesRoute>>
  /\ UNCHANGED <<storeVars, notSalesVars>>

\* what the form of the details step can submit: BikeDetailsForm, once its
\* three required fields are filled, for a new bike, SaleDetailsForm otherwise
DetailsOf(formData) ==
  IF formData.isNewBike
  THEN {Merge(BikeFormDefaults(formData),
              [serialNumber |-> "NEW001", brand |-> "Cube", model |-> "Aim"])}
  ELSE {Merge(SaleFormDefaults(formData), [soldBy |-> by, isNewBike |-> new]) :
          by \in {"", "Sam"}, new \in BOOLEAN}

handleDetailsSubmit(details) ==
  /\ FormShown
  /\ formStep = "details"
  /\ salesFormData' = Merge(salesFormData, details)
  /\ formStep' = "review"
  /\ UNCHANGED <<loading, availableBikes, availableClients, fetchPc, submits, alert, salesRoute>>
  /\ UNCHANGED <<storeVars, notSalesVars>>

\* the record of a handleSubmit call that has reached the await of addDoc
NewSubmit(formData) ==
  [pc |-> "addDoc", form |-> formData,
   data |-> Merge(formData, [createdAt |-> NowIso, status |-> "completed"]),
   id |-> null]

\* handleSubmit without its check of the required fields
handleSubmitUnchecked ==
  /\ FormShown
  /\ formStep = "review"
  /\ Len(submits) < MaxSales
  /\ submits' = Append(submits, NewSubmit(salesFormData))
  /\ UNCHANGED <<formStep, loading, availableBikes, availableClients, salesFormData,
                 fetchPc, alert, salesRoute>>
  /\ UNCHANGED <<storeVars, notSalesVars>>

\* onPress of the submit button of the review step: handleSubmit up to the
\* await of addDoc, whether or not an earlier call is still awaiting
handleSubmit ==
  /\ FormShown
  /\ formStep = "review"
  /\ Len(submits) < MaxSales
  /\ IF ~StrSet(salesFormData, "serialNumber") \/ ~StrSet(salesFormData, "brand")
          \/ ~NumSet(salesFormData, "price")
     THEN /\ alert' = RequiredFieldsAlert
          /\ UNCHANGED submits
     ELSE /\ submits' = Append(submits, NewSubmit(salesFormData))
          /\ UNCHANGED alert
  /\ UNCHANGED <<formStep, loading, availableBikes, availableClients, salesFormData,
                 fetchPc, salesRoute>>
  /\ UNCHANGED <<storeVars, notSalesVars>>

\* updateDoc is called with clientId: formData.clientId, which is undefined
\* when no client was chosen; a db that refuses undefined throws at the call
UpdateDocThrows(formData) ==
  "clientId" \notin DOMAIN formData /\ ~ignoreUndefinedProperties

\* addDoc of call i resolves with the saleRef: without a bikeId the success
\* alert, with one the call of updateDoc, which throws into the catch or is
\* awaited
SaleAddDocResolved(i) ==
  /\ submits[i].pc = "addDoc"
  /\ saleStore' = Append(saleStore, submits[i].data)
  /\ IF ~StrSet(submits[i].form, "bikeId")
     THEN /\ submits' = [submits EXCEPT ![i].pc = "ended",
                                        ![i].id = Len(saleStore) + 1]
          /\ alert' = SaleRecordedAlert
     ELSE IF UpdateDocThrows(submits[i].form)
     THEN /\ submits' = [submits EXCEPT ![i].pc = "ended",
                                        ![i].id = Len(saleStore) + 1]
          /\ alert' = SaleFailedAlert
     ELSE /\ submits' = [submits EXCEPT ![i].pc = "updateDoc",
                                        ![i].id = Len(saleStore) + 1]
          /\ UNCHANGED alert
  /\ UNCHANGED <<formStep, loading, availableBikes, availableClients, salesFormData,
                 fetchPc, salesRoute>>
  /\ UNCHANGED <<bikeStore, clientStore, notSalesVars>>

\* addDoc of call i rejects: catch
SaleAddDocRejected(i) ==
  /\ submits[i].pc = "addDoc"
  /\ alert' = SaleFailedAlert
  /\ submits' = [submits EXCEPT ![i].pc = "ended"]
  /\ UNCHANGED <<formStep, loading, availableBikes, availableClients, salesFormData,
                 fetchPc, salesRoute>>
  /\ UNCHANGED <<storeVars, notSalesVars>>

\* updateDoc of the bike of call i resolves: the fields are merged into the
\* bike, a clientId that is undefined left out; the success alert
SaleUpdateDocResolved(i) ==
  /\ submits[i].pc = "updateDoc"
  /\ bikeStore' =
       [bikeStore EXCEPT ![submits[i].form.bikeId] =
          Merge(Merge(@, [sold |-> TRUE, saleId |-> submits[i].id,
                          saleDate |-> submits[i].data.saleDate,
                          salePrice |-> submits[i].data.price,
                          lastUpdated |-> NowIso]),
                IF "clientId" \in DOMAIN submits[i].form
                THEN [clientId |-> submits[i].form.clientId]
                ELSE [f \in {} |-> null])]
  /\ alert' = SaleRecordedAlert
  /\ submits' = [submits EXCEPT ![i].pc = "ended"]
  /\ UNCHANGED <<formStep, loading, availableBikes, availableClients, salesFormData,
                 fetchPc, salesRoute>>
  /\ UNCHANGED <<clientStore, saleStore, notSalesVars>>

\* updateDoc of the bike of call i rejects: catch
SaleUpdateDocRejected(i) ==
  /\ submits[i].pc = "updateDoc"
  /\ alert' = SaleFailedAlert
  /\ submits' = [submits EXCEPT ![i].pc = "ended"]
  /\ UNCHANGED <<formStep, loading, availableBikes, availableClients, salesFormData,
                 fetchPc, salesRoute>>
  /\ UNCHANGED <<storeVars, notSalesVars>>

\* OK of the success alert: router.back()
PressOk ==
  /\ salesRoute = "form"
  /\ alert = SaleRecordedAlert
  /\ salesRoute' = "back"
  /\ UNCHANGED <<formStep, loading, availableBikes, availableClients, salesFormData,
                 fetchPc, submits, alert>>
  /\ UNCHANGED <<storeVars, notSalesVars>>

NextSales ==
  \/ SalesFetchResolved
  \/ SalesFetchRejected
  \/ \E bike \in availableBikes : handleBikeSelect(bike)
  \/ handleManualEntry
  \/ \E client \in availableClients : handleClientSelect(client)
  \/ \E details \in DetailsOf(salesFormData) : handleDetailsSubmit(details)
  \/ handleSubmit
  \/ \E i \in DOMAIN submits : SaleAddDocResolved(i)
  \/ \E i \in DOMAIN submits : SaleAddDocRejected(i)
  \/ \E i \in DOMAIN submits : SaleUpdateDocResolved(i)
  \/ \E i \in DOMAIN submits : SaleUpdateDocRejected(i)
  \/ PressOk

SpecSales == Init /\ [][NextSales]_vars

(***************************************************************************)
(* ClientList: fetchData, the details modal, handleDelete and handleSave   *)
(*                                                                         *)
(* Every handleDelete and handleSave call is followed on its own, with the *)
(* clients, bikes, selectedClient and editedData of the render it was made *)
(* in; every updateDoc of a call settles on its own.                       *)
(***************************************************************************)

FetchFailedMessage == "Failed to fetch data"

ClientDeletedAlert == "Client deleted successfully"

DeleteFailedAlert == "Failed to delete client"

ClientUpdatedAlert == "Client updated successfully"

UpdateFailedAlert == "Failed to update client"

MaxDeletes == 2

\* most handleSave calls in a behaviour
MaxSaves == 1

\* texts typed into the inputs of the modal, by the field of the input
EditTexts == [name |-> {"Anne"}]

\* the ids of the clients collection, in the order getDocs gives the documents
ClientIds == <<"c1", "c2", "c3">>

\* clientsSnapshot.docs.map(doc => ({ id, name, phone, email, bikeSerialNumbers }))
ClientsData(store) ==
  LET Of(ids) ==
        SubSeq([i \in DOMAIN ids |->
                  [id |-> ids[i], name |-> store[ids[i]].name,
                   phone |-> store[ids[i]].phone, email |-> store[ids[i]].email,
                   bikeSerialNumbers |-> store[ids[i]].bikeSerialNumbers]],
               1, Len(ids))
  IN  Of(SelectSeq(ClientIds, LAMBDA k : k \in DOMAIN store))

\* list.find(c => c.id === clientId): the first such client, Null for undefined
FindClient(list, clientId) ==
  IF \E i \in DOMAIN list : list[i].id = clientId
  THEN list[CHOOSE i \in DOMAIN list :
              /\ list[i].id = clientId
              /\ \A j \in 1..(i - 1) : list[j].id # clientId]
  ELSE Null

\* list.filter(c => c.id !== clientId)
WithoutClient(list, clientId) == SelectSeq(list, LAMBDA c : c.id # clientId)

\* both getDocs resolve: setClients, setBikes, finally setLoading(false)
ListFetchResolved ==
  /\ listFetchPc = "pending"
  /\ clients' = ClientsData(clientStore)
  /\ bikes' = DocsWithId(bikeStore)
  /\ listLoading' = FALSE
  /\ listFetchPc' = "done"
  /\ UNCHANGED <<listError, selectedClient, editMode, editedData, deletes, saves, listAlert>>
  /\ UNCHANGED <<bikeStore, clientStore, notListVars>>

\* a getDocs rejects: setError, finally setLoading(false)
ListFetchRejected ==
  /\ listFetchPc = "pending"
  /\ listError' = FetchFailedMessage
  /\ listLoading' = FALSE
  /\ listFetchPc' = "done"
  /\ UNCHANGED <<clients, bikes, selectedClient, editMode, editedData, deletes, saves,
                 listAlert>>
  /\ UNCHANGED <<bikeStore, clientStore, notListVars>>

\* the list and the modal are rendered, and no confirmation dialog, which is
\* modal, is open over them
ListShown ==
  /\ ~listLoading
  /\ listError = ""
  /\ \A i \in DOMAIN deletes : deletes[i].pc # "confirm"

\* onPress of the card of clients[k], which the modal covers while it is visible
SelectClient(k) ==
  /\ ListShown
  /\ selectedClient = Null
  /\ selectedClient' = clients[k]
  /\ UNCHANGED <<clients, bikes, listLoading, listError, listFetchPc, editMode,
                 editedData, deletes, saves, listAlert>>
  /\ UNCHANGED <<bikeStore, clientStore, notListVars>>

\* onPress of the overlay of the modal: !editMode && setSelectedClient(null)
PressOverlay ==
  /\ ListShown
  /\ selectedClient # Null
  /\ ~editMode
  /\ selectedClient' = Null
  /\ UNCHANGED <<clients, bikes, listLoading, listError, listFetchPc, editMode,
                 editedData, deletes, saves, listAlert>>
  /\ UNCHANGED <<bikeStore, clientStore, notListVars>>

\* onRequestClose of the modal
RequestClose ==
  /\ ListShown
  /\ selectedClient # Null
  /\ editMode' = FALSE
  /\ selectedClient' = Null
  /\ UNCHANGED <<clients, bikes, listLoading, listError, listFetchPc, editedData,
                 deletes, saves, listAlert>>
  /\ UNCHANGED <<bikeStore, clientStore, notListVars>>

\* onPress of Edit
PressEdit ==
  /\ ListShown
  /\ selectedClient # Null
  /\ ~editMode
  /\ editMode' = TRUE
  /\ editedData' = selectedClient
  /\ UNCHANGED <<clients, bikes, listLoading, listError, listFetchPc, selectedClient,
                 deletes, saves, listAlert>>
  /\ UNCHANGED <<bikeStore, clientStore, notListVars>>

\* onChangeText of the Name or the Phone input
ChangeText(field, text) ==
  /\ ListShown
  /\ selectedClient # Null
  /\ editMode
  /\ editedData' = Merge(editedData, [f \in {field} |-> text])
  /\ UNCHANGED <<clients, bikes, listLoading, listError, listFetchPc, selectedClient,
                 editMode, deletes, saves, listAlert>>
  /\ UNCHANGED <<bikeStore, clientStore, notListVars>>

\* onPress of Cancel in edit mode
PressCancelEdit ==
  /\ ListShown
  /\ selectedClient # Null
  /\ editMode
  /\ editMode' = FALSE
  /\ editedData' = NoErrors
  /\ UNCHANGED <<clients, bikes, listLoading, listError, listFetchPc, selectedClient,
                 deletes, saves, listAlert>>
  /\ UNCHANGED <<bikeStore, clientStore, notListVars>>

\* the ids of the bikes a handleDelete(clientId) of this render updates: those
\* of the serial numbers of clients.find(...) that bikes.find finds
BikesOf(clientId) ==
  LET Of(client) ==
        IF client = Null THEN {}
        ELSE {b.id : b \in {b \in bikes :
                \E i \in DOMAIN client.bikeSerialNumbers :
                  client.bikeSerialNumbers[i] = b.serialNumber}}
  IN  Of(FindClient(clients, clientId))

\* onPress of Delete in edit mode: handleDelete(selectedClient.id) opens the
\* confirmation dialog, then setEditMode(false)
handleDelete ==
  /\ ListShown
  /\ selectedClient # Null
  /\ editMode
  /\ Len(deletes) < MaxDeletes
  /\ deletes' = Append(deletes, [pc |-> "confirm", clientId |-> selectedClient.id,
                                 bikeIds |-> BikesOf(selectedClient.id),
                                 pending |-> {}])
  /\ editMode' = FALSE
  /\ UNCHANGED <<clients, bikes, listLoading, listError, listFetchPc, selectedClient,
                 editedData, saves, listAlert>>
  /\ UNCHANGED <<bikeStore, clientStore, notListVars>>

\* Cancel of the confirmation dialog of call i
PressCancel(i) ==
  /\ deletes[i].pc = "confirm"
  /\ deletes' = [deletes EXCEPT ![i].pc = "canceled"]
  /\ UNCHANGED <<clients, bikes, listLoading, listError, listFetchPc, selectedClient,
                 editMode, editedData, saves, listAlert>>
  /\ UNCHANGED <<bikeStore, clientStore, notListVars>>

\* Delete of the confirmation dialog of call i: onPress runs up to await deleteDoc
PressDelete(i) ==
  /\ deletes[i].pc = "confirm"
  /\ deletes' = [deletes EXCEPT ![i].pc = "deleteDoc"]
  /\ UNCHANGED <<clients, bikes, listLoading, listError, listFetchPc, selectedClient,
                 editMode, editedData, saves, listAlert>>
  /\ UNCHANGED <<bikeStore, clientStore, notListVars>>

\* lines 421-425 of call i: the list drops the client, the modal closes
DeleteSucceeds(i) ==
  /\ clients' = WithoutClient(clients, deletes[i].clientId)
  /\ selectedClient' = Null
  /\ listAlert' = ClientDeletedAlert

\* deleteDoc of call i resolves: the document is gone and every updateDoc of
\* the Promise.all is called; with none to call the Promise.all resolves
DeleteDocResolved(i) ==
  /\ deletes[i].pc = "deleteDoc"
  /\ clientStore' = [k \in DOMAIN clientStore \ {deletes[i].clientId} |-> clientStore[k]]
  /\ IF deletes[i].bikeIds = {}
     THEN /\ deletes' = [deletes EXCEPT ![i].pc = "ended"]
          /\ DeleteSucceeds(i)
     ELSE /\ deletes' = [deletes EXCEPT ![i].pc = "updateDoc",
                                        ![i].pending = deletes[i].bikeIds]
          /\ UNCHANGED <<clients, selectedClient, listAlert>>
  /\ UNCHANGED <<bikes, listLoading, listError, listFetchPc, editMode, editedData, saves>>
  /\ UNCHANGED <<bikeStore, notListVars>>

\* deleteDoc of call i rejects: catch
DeleteDocRejected(i) ==
  /\ deletes[i].pc = "deleteDoc"
  /\ listAlert' = DeleteFailedAlert
  /\ deletes' = [deletes EXCEPT ![i].pc = "ended"]
  /\ UNCHANGED <<clients, bikes, listLoading, listError, listFetchPc, selectedClient,
                 editMode, editedData, saves>>
  /\ UNCHANGED <<bikeStore, clientStore, notListVars>>

\* updateDoc(doc(db, 'bikes', bike.id), { clientId: null, clientName: null })
Unlinked(store, ids) ==
  [k \in DOMAIN store |->
     IF k \in ids THEN Merge(store[k], [clientId |-> null, clientName |-> null])
     ELSE store[k]]

\* the updateDoc of bike b of call i resolves; when it is the last of a
\* Promise.all that has not rejected, the Promise.all resolves
UpdateDocResolved(i, b) ==
  /\ b \in deletes[i].pending
  /\ bikeStore' = Unlinked(bikeStore, {b})
  /\ IF deletes[i].pc = "updateDoc" /\ deletes[i].pending = {b}
     THEN /\ deletes' = [deletes EXCEPT ![i].pc = "ended", ![i].pending = {}]
          /\ DeleteSucceeds(i)
     ELSE /\ deletes' = [deletes EXCEPT ![i].pending = @ \ {b}]
          /\ UNCHANGED <<clients, selectedClient, listAlert>>
  /\ UNCHANGED <<bikes, listLoading, listError, listFetchPc, editMode, editedData, saves>>
  /\ UNCHANGED <<clientStore, notListVars>>

\* the updateDoc of bike b of call i rejects; the first rejection rejects the
\* Promise.all: catch, while the other updateDoc calls stay pending
UpdateDocRejected(i, b) ==
  /\ b \in deletes[i].pending
  /\ IF deletes[i].pc = "updateDoc"
     THEN /\ deletes' = [deletes EXCEPT ![i].pc = "ended", ![i].pending = @ \ {b}]
          /\ listAlert' = DeleteFailedAlert
     ELSE /\ deletes' = [deletes EXCEPT ![i].pending = @ \ {b}]
          /\ UNCHANGED listAlert
  /\ UNCHANGED <<clients, bikes, listLoading, listError, listFetchPc, selectedClient,
                 editMode, editedData, saves>>
  /\ UNCHANGED <<bikeStore, clientStore, notListVars>>

\* onPress of Save in edit mode: handleSave runs up to await updateDoc
handleSave ==
  /\ ListShown
  /\ selectedClient # Null
  /\ editMode
  /\ Len(saves) < MaxSaves
  /\ saves' = Append(saves, [pc |-> "updateDoc", clientId |-> selectedClient.id,
                             data |-> editedData, clients |-> clients])
  /\ UNCHANGED <<clients, bikes, listLoading, listError, listFetchPc, selectedClient,
                 editMode, editedData, deletes, listAlert>>
  /\ UNCHANGED <<bikeStore, clientStore, notListVars>>

\* clients.map(client => client.id === id ? { ...client, ...data } : client)
UpdatedClients(list, id, data) ==
  SubSeq([k \in DOMAIN list |-> IF list[k].id = id THEN Merge(list[k], data) ELSE list[k]],
         1, Len(list))

\* setSelectedClient(prev => prev ? { ...prev, ...data } : null), then the
\* effect on [clients], which sets the client of that id in the new list
SelectedAfterSave(list, data) ==
  LET Fresh(sel) ==
        IF FindClient(list, sel.id) # Null THEN FindClient(list, sel.id) ELSE sel
  IN  IF selectedClient = Null THEN Null ELSE Fresh(Merge(selectedClient, data))

\* updateDoc of handleSave call i resolves, which it does for a document that
\* exists: the list is set from the clients of the call's render
SaveResolved(i) ==
  /\ saves[i].pc = "updateDoc"
  /\ saves[i].clientId \in DOMAIN clientStore
  /\ clientStore' = [clientStore EXCEPT ![saves[i].clientId] = Merge(@, saves[i].data)]
  /\ clients' = UpdatedClients(saves[i].clients, saves[i].clientId, saves[i].data)
  /\ selectedClient' =
       SelectedAfterSave(UpdatedClients(saves[i].clients, saves[i].clientId, saves[i].data),
                         saves[i].data)
  /\ editMode' = FALSE
  /\ listAlert' = ClientUpdatedAlert
  /\ saves' = [saves EXCEPT ![i].pc = "ended"]
  /\ UNCHANGED <<bikes, listLoading, listError, listFetchPc, editedData, deletes>>
  /\ UNCHANGED <<bikeStore, notListVars>>

\* updateDoc of handleSave call i rejects: catch
SaveRejected(i) ==
  /\ saves[i].pc = "updateDoc"
  /\ listAlert' = UpdateFailedAlert
  /\ saves' = [saves EXCEPT ![i].pc = "ended"]
  /\ UNCHANGED <<clients, bikes, listLoading, listError, listFetchPc, selectedClient,
                 editMode, editedData, deletes>>
  /\ UNCHANGED <<bikeStore, clientStore, notListVars>>

NextList ==
  \/ ListFetchResolved
  \/ ListFetchRejected
  \/ \E k \in DOMAIN clients : SelectClient(k)
  \/ PressOverlay
  \/ RequestClose
  \/ PressEdit
  \/ \E field \in DOMAIN EditTexts : \E text \in EditTexts[field] : ChangeText(field, text)
  \/ PressCancelEdit
  \/ handleDelete
  \/ \E i \in DOMAIN deletes : PressCancel(i)
  \/ \E i \in DOMAIN deletes : PressDelete(i)
  \/ \E i \in DOMAIN deletes : DeleteDocResolved(i)
  \/ \E i \in DOMAIN deletes : DeleteDocRejected(i)
  \/ \E i \in DOMAIN deletes : \E b \in deletes[i].pending : UpdateDocResolved(i, b)
  \/ \E i \in DOMAIN deletes : \E b \in deletes[i].pending : UpdateDocRejected(i, b)
  \/ handleSave
  \/ \E i \in DOMAIN saves : SaveResolved(i)
  \/ \E i \in DOMAIN saves : SaveRejected(i)

SpecList == Init /\ [][NextList]_vars

(***************************************************************************)
(* Properties                                                              *)
(***************************************************************************)

\* the takePhoto invocations
Runs == {runs[i] : i \in DOMAIN runs}

\* parseJobSheetText has returned in the invocation
Extracted(r) == r.parsedData # Null

\* the invocation has built its job record
Submitted(r) == r.jobData # Null

\* the literal lab occurs somewhere in s, letter case ignored
Contains(s, lab) == \E i \in 1..Len(s) : LabelAt(s, i, lab)

RequiredFields == {"customerName", "customerPhone", "bikeModel"}

Defaults ==
  [customerName  |-> "Unknown Customer",
   customerPhone |-> "No Phone",
   bikeModel     |-> "Unknown Model",
   workRequired  |-> "No work description",
   laborCost     |-> "0",
   partsCost     |-> "0"]

\* no pattern of the field's chain matches t
NoneMatches(field, t) ==
  \A k \in 1..Len(patterns[field]) : ~Match(patterns[field][k], t).ok

\* a number that is not NaN and not below 0, Infinity included
NotNegative(n) == n # "" /\ n # "NaN" /\ CharAt(n, 1) # "-"

\* the error shown is the one of the required-field check
ReportedIncomplete == error = "OCR Processing Failed: " \o RequiredFieldsMessage

\* C1: the job record the scanner builds has totalCost = laborCost + partsCost,
\* whatever total the text prints.
C1_TotalIsLaborPlusParts ==
  \A r \in Runs :
    Submitted(r) => r.jobData.totalCost = Plus(r.jobData.laborCost, r.jobData.partsCost)

\* a record built from a text that prints a total of 500 beside other costs
C1_Witness ==
  \E r \in Runs :
    /\ Submitted(r)
    /\ Contains(r.text, "Total: $500")
    /\ r.jobData.laborCost = "0"
    /\ r.jobData.partsCost = "210"
    /\ r.jobData.totalCost = "210"

\* C2: on a sheet of the worked example's layout, workDone is exactly the
\* lines between the Work Done header and the Labor line.
C2_WorkDoneEndsBeforeLabor ==
  \A r \in Runs :
    \A v \in SheetValues :
      (Extracted(r) /\ r.text = Sheet(v)) => r.parsedData.workDone = v.done

\* C3: on a sheet of the worked example's layout every single-line field and
\* notes is the trimmed text after its own label, the costs are the numbers
\* after Labor and Parts, totalCost is their sum and the sheet is accepted.
C3_WorkedExampleFields ==
  \A r \in Runs :
    \A v \in SheetValues :
      (Extracted(r) /\ r.text = Sheet(v)) =>
        /\ r.parsedData.customerName = v.name
        /\ r.parsedData.customerPhone = v.phone
        /\ r.parsedData.bikeModel = v.bike
        /\ r.parsedData.workRequired = v.required
        /\ r.parsedData.notes = v.notes
        /\ r.parsedData.laborCost = v.labor.val
        /\ r.parsedData.partsCost = v.parts.val
        /\ Submitted(r)
        /\ r.jobData.totalCost = Plus(v.labor.val, v.parts.val)
        /\ ~ReportedIncomplete

\* the worked example itself has been extracted and handed to addDoc
C3_Witness ==
  \E r \in Runs :
    /\ r.pc = "addDoc"
    /\ r.text = "Customer: John Jerrime\nPhone: 0411 056 876\nBike: Trek Marlin 7\nWork Required: Fork service\nWork Done: Fork Service\nHub clean\nLabor: $80\nParts: $210\nNotes: S/T 27/6/2023"
    /\ r.jobData.customerName = "John Jerrime"
    /\ r.jobData.totalCost = "290"

\* C4: no multi-line capture contains the header of another section.
C4_NoSectionBleed ==
  \A r \in Runs :
    Extracted(r) =>
      /\ ~Contains(r.parsedData.workRequired, "Work Done")
      /\ ~Contains(r.parsedData.workRequired, "Notes")
      /\ ~Contains(r.parsedData.workDone, "Work Required")
      /\ ~Contains(r.parsedData.workDone, "Notes")
      /\ ~Contains(r.parsedData.notes, "Work Required")
      /\ ~Contains(r.parsedData.notes, "Work Done")

\* C5: the scan reports Incomplete exactly when a required field was filled
\* by its default.
C5_DefaultedIsReportedIncomplete ==
  \A r \in Runs :
    Extracted(r) =>
      (ReportedIncomplete <=> \E f \in RequiredFields : tryPatterns(patterns[f], r.text) = "")

\* C6: no run of processJobSheet ends with the worker still held.
C6_WorkerReleasedOnEveryExit ==
  \A r \in Runs :
    r.pc = "ended" => r.worker # "held"

\* C7: extraction has run only if the worker's terminate has completed.
C7_ExtractionAfterRelease ==
  \A r \in Runs :
    Extracted(r) => r.worker = "terminated"

\* extraction has run, on a released worker
C7_Witness ==
  \E r \in Runs :
    r.pc = "addDoc" /\ Extracted(r) /\ r.worker = "terminated" /\ r.text # ""

\* C8: a field none of whose patterns matches equals its configured default.
C8_DefaultWhenNoPatternMatches ==
  \A r \in Runs :
    Extracted(r) =>
      \A f \in DOMAIN patterns : NoneMatches(f, r.text) => r.parsedData[f] = Defaults[f]

\* a text with a customer but no phone, bike, work or cost line was extracted
C8_Witness ==
  \E r \in Runs :
    /\ r.pc = "addDoc"
    /\ r.text = "Customer: John Jerrime"
    /\ NoneMatches("customerPhone", r.text)
    /\ NoneMatches("laborCost", r.text)
    /\ r.parsedData.customerPhone = "No Phone"
    /\ r.parsedData.laborCost = "0"

\* lab occurs in t and each occurrence is followed, after its colons, by a line
\* break or the end of the text
LabelWithoutContent(t, lab) ==
  /\ Contains(t, lab)
  /\ \A i \in 1..Len(t) :
       LabelAt(t, i, lab) =>
         CharAt(t, RunEnd(t, i + Len(lab), ":")) \in {"", "\n"}

\* C9: a Customer label without content counts as a non-match: customerName
\* is what the rest of the chain (Name, Client) gives, or the default.
C9_EmptyLabelFallsThrough ==
  \A r \in Runs :
    (r.pc = "addDoc" /\ LabelWithoutContent(r.text, "Customer")) =>
      r.parsedData.customerName = StrOr(TryFrom(patterns.customerName, r.text, 2), "Unknown Customer")

RECURSIVE FirstNonBlank(_, _, _)
\* the first capture of the chain that is non-empty once trimmed
FirstNonBlank(patternGroup, t, k) ==
  IF k > Len(patternGroup) THEN ""
  ELSE LET match == Match(patternGroup[k], t)
       IN  IF match.ok /\ Trim(match.cap) # "" THEN Trim(match.cap)
           ELSE FirstNonBlank(patternGroup, t, k + 1)

\* C10: tryPatterns returns the first capture that is non-empty once trimmed;
\* a capture of only whitespace does not end the chain.
C10_BlankCaptureDoesNotEndChain ==
  \A r \in Runs :
    r.pc = "addDoc" =>
      \A f \in DOMAIN patterns :
        tryPatterns(patterns[f], r.text) = FirstNonBlank(patterns[f], r.text, 1)

\* index of the first pattern of the group that matches t, 0 if none does
FirstMatching(patternGroup, t) ==
  LET hits == {k \in 1..Len(patternGroup) : Match(patternGroup[k], t).ok}
  IN  IF hits = {} THEN 0 ELSE MinOf(hits)

\* lab occurs in t and each occurrence is followed on its own line by a value
LabelWithValue(t, lab) ==
  /\ Contains(t, lab)
  /\ \A i \in 1..Len(t) :
       LabelAt(t, i, lab) =>
         NotNewline(CharAt(t, RunEnd(t, i + Len(lab), "[ \\t:]")))

\* C11: the patterns of a chain are tried in declared order and the first that
\* matches gives the value; with a value under Customer and one under Name,
\* customerName is the Customer value whichever line comes first.
C11_FirstDeclaredPatternWins ==
  \A r \in Runs :
    r.pc = "addDoc" =>
      /\ \A f \in DOMAIN patterns :
           LET k == FirstMatching(patterns[f], r.text)
           IN  k # 0 => tryPatterns(patterns[f], r.text) = Trim(Match(patterns[f][k], r.text).cap)
      /\ (LabelWithValue(r.text, "Customer") /\ Contains(r.text, "Name: Bob")) =>
           /\ r.parsedData.customerName \in {"John Jerrime", "City Bike Hire"}
           /\ Contains(r.text, "Customer: " \o r.parsedData.customerName)

\* the Name line comes before the Customer line and Customer still wins
C11_Witness ==
  \E r \in Runs :
    /\ r.pc = "addDoc"
    /\ r.text = "Name: Bob\nCustomer: John Jerrime"
    /\ Match(patterns.customerName[2], r.text).ok
    /\ r.parsedData.customerName = "John Jerrime"

\* lab occurs in t and each occurrence is followed, after colons and white
\* space, by one of the headers st
HeaderThenHeader(t, lab, st) ==
  /\ Contains(t, lab)
  /\ \A i \in 1..Len(t) :
       LabelAt(t, i, lab) =>
         \E s \in 1..Len(st) : LabelAt(t, RunEnd(t, i + Len(lab), "[\\s:]"), st[s])

\* C12: a section header directly followed by the next section header gives
\* the empty string for that section.
C12_EmptySectionIsEmptyString ==
  \A r \in Runs :
    r.pc = "addDoc" =>
      /\ HeaderThenHeader(r.text, "Work Required", <<"Work Done", "Notes">>) =>
           r.parsedData.workRequired = ""
      /\ HeaderThenHeader(r.text, "Work Done", <<"Notes">>) =>
           r.parsedData.workDone = ""

CostLabels ==
  [laborCost |-> <<"Labor", "Service Fee", "Work Cost">>,
   partsCost |-> <<"Parts", "Materials", "Components">>]

\* somewhere in t the label lab is followed, after colons and blanks of its
\* line and an optional $, by a digit
NumberAfterLabel(t, lab) ==
  \E i \in 1..Len(t) :
    /\ LabelAt(t, i, lab)
    /\ LET n == RunEnd(t, i + Len(lab), "[ \\t:]")
       IN  IsDigit(CharAt(t, IF CharAt(t, n) = "$" THEN n + 1 ELSE n))

\* C13: a cost is 0 when none of its labels is followed by a number, be the
\* label absent or followed by other text such as "free".
C13_CostZeroWithoutNumber ==
  \A r \in Runs :
    r.pc = "addDoc" =>
      \A f \in DOMAIN CostLabels :
        (\A k \in 1..Len(CostLabels[f]) : ~NumberAfterLabel(r.text, CostLabels[f][k])) =>
          r.parsedData[f] = "0"

\* "Labor: free" beside a printed total was extracted with laborCost 0
C13_Witness ==
  \E r \in Runs :
    /\ r.pc = "addDoc"
    /\ r.text = "Labor: free\nTotal: $500"
    /\ r.parsedData.laborCost = "0"
    /\ r.parsedData.partsCost = "0"

DraftFields ==
  {"customerName", "customerPhone", "bikeModel", "workRequired", "workDone",
   "laborCost", "partsCost", "notes"}

\* C15: every text, the empty one included, is extracted in the one step
\* that follows the release of the worker, and that step ends with the job
\* draft built, never in an error; the draft holds customerName,
\* customerPhone, bikeModel, workRequired, workDone, laborCost, partsCost,
\* totalCost and notes: the first four a string that is not empty, workDone
\* and notes what the extraction gave (the empty string for nothing), the
\* three costs a number that is not NaN and not negative.
C15_DraftIsComplete ==
  \A r \in Runs :
    /\ r.worker = "terminated" => Extracted(r)
    /\ Extracted(r) <=> Submitted(r)
    /\ Submitted(r) =>
         /\ r.pc \in {"addDoc", "ended"}
         /\ DraftFields \cup {"totalCost"} \subseteq DOMAIN r.jobData
         /\ \A f \in {"customerName", "customerPhone", "bikeModel", "workRequired"} :
              r.jobData[f] # ""
         /\ r.jobData.workDone = r.parsedData.workDone
         /\ r.jobData.notes = r.parsedData.notes
         /\ \A f \in {"laborCost", "partsCost", "totalCost"} : NotNegative(r.jobData[f])

\* the empty text was extracted and the whole draft built from it
C15_Witness ==
  \E r \in Runs :
    /\ r.pc = "addDoc"
    /\ r.text = ""
    /\ r.jobData.customerName = "Unknown Customer"
    /\ r.jobData.workRequired = "No work description"
    /\ r.jobData.notes = ""
    /\ r.jobData.totalCost = "0"

\* ten digits grouped 4-3-3, the groups joined with s1 and s2 white-space
\* characters, start at position i of t
BareNumberAt(t, i, s1, s2) ==
  /\ \A k \in 0..3 : IsDigit(CharAt(t, i + k))
  /\ s1 = 1 => IsSpace(CharAt(t, i + 4))
  /\ \A k \in 0..2 : IsDigit(CharAt(t, i + 4 + s1 + k))
  /\ s2 = 1 => IsSpace(CharAt(t, i + 7 + s1))
  /\ \A k \in 0..2 : IsDigit(CharAt(t, i + 7 + s1 + s2 + k))

\* the numbers of that shape in t, as <<start, length>>
BareNumbers(t) ==
  {<<i, 10 + s1 + s2>> : <<i, s1, s2>> \in
     {x \in (1..Len(t)) \X {0, 1} \X {0, 1} : BareNumberAt(t, x[1], x[2], x[3])}}

NoPhoneLabel(t) == ~Contains(t, "Phone") /\ ~Contains(t, "Contact")

\* C16 as stated: a text without a Phone or Contact label yields "No Phone".
C16_PhoneOnlyAfterLabel ==
  \A r \in Runs :
    (r.pc = "addDoc" /\ NoPhoneLabel(r.text)) => r.parsedData.customerPhone = "No Phone"

\* C16 as amended: a text without a Phone or Contact label yields the first
\* number of the shape dddd ddd ddd found anywhere in it, and "No Phone" only
\* when it holds no such number.
C16_PhoneFromLabelOrBareNumber ==
  \A r \in Runs :
    (r.pc = "addDoc" /\ NoPhoneLabel(r.text)) =>
      IF BareNumbers(r.text) = {}
      THEN r.parsedData.customerPhone = "No Phone"
      ELSE \E n \in BareNumbers(r.text) :
             /\ \A m \in BareNumbers(r.text) : n[1] <= m[1]
             /\ r.parsedData.customerPhone = SubSeq(r.text, n[1], n[1] + n[2] - 1)

\* an unlabelled number was taken as the phone
C16_Witness ==
  \E r \in Runs :
    /\ r.pc = "addDoc"
    /\ r.text = "Ref 0298 765 432"
    /\ NoPhoneLabel(r.text)
    /\ r.parsedData.customerPhone = "0298 765 432"

UpperOf ==
  [c \in {CharAt(LowerCase, i) : i \in 1..Len(LowerCase)} |->
     CharAt(UpperCase, CHOOSE i \in 1..Len(LowerCase) : CharAt(LowerCase, i) = c)]

ToUpper(c) == IF c \in DOMAIN UpperOf THEN UpperOf[c] ELSE c

\* every label and section header the patterns know
AllLabels ==
  {"Customer", "Name", "Client", "Phone", "Contact", "Bike", "Model", "Motorcycle",
   "Vehicle", "Work Required", "Service Needed", "Issues", "Labor", "Service Fee",
   "Work Cost", "Parts", "Materials", "Components", "Work Done", "Notes"}

\* position j of t lies inside an occurrence of a label
InsideLabel(t, j) ==
  \E lab \in AllLabels :
    \E i \in (j - Len(lab) + 1)..j : i >= 1 /\ LabelAt(t, i, lab)

RECURSIVE UpcaseLabelsIn(_, _, _)
\* positions lo..hi of t with the letters of every label in capitals
UpcaseLabelsIn(t, lo, hi) ==
  IF lo > hi THEN ""
  ELSE IF lo = hi
       THEN (IF InsideLabel(t, lo) THEN ToUpper(CharAt(t, lo)) ELSE CharAt(t, lo))
       ELSE UpcaseLabelsIn(t, lo, (lo + hi) \div 2)
              \o UpcaseLabelsIn(t, (lo + hi) \div 2 + 1, hi)

\* t with every label written in capitals
UpcaseLabels(t) == UpcaseLabelsIn(t, 1, Len(t))

\* C17: writing the labels of the text in another letter case changes no
\* field of the draft.
C17_LabelCaseChangesNothing ==
  \A r \in Runs :
    r.pc = "addDoc" =>
      \A recased \in {UpcaseLabels(r.text)} : parseJobSheetText(recased) = r.parsedData

\* C18: the required-field check of the scanner never fires: after
\* extraction the three required fields are non-empty.
C18_RequiredCheckNeverFires ==
  /\ ~ReportedIncomplete
  /\ \A r \in Runs : Extracted(r) => \A f \in RequiredFields : r.parsedData[f] # ""

\* the empty text passed the required-field check
C18_Witness ==
  \E r \in Runs :
    /\ r.pc = "addDoc"
    /\ r.text = ""
    /\ \A f \in RequiredFields : r.parsedData[f] = Defaults[f]
    /\ Submitted(r)

RECURSIVE StripDollarIn(_, _, _)
\* positions lo..hi of t without the currency symbols
StripDollarIn(t, lo, hi) ==
  IF lo > hi THEN ""
  ELSE IF lo = hi
       THEN (IF CharAt(t, lo) = "$" THEN "" ELSE CharAt(t, lo))
       ELSE StripDollarIn(t, lo, (lo + hi) \div 2)
              \o StripDollarIn(t, (lo + hi) \div 2 + 1, hi)

\* t without its currency symbols
StripDollar(t) == StripDollarIn(t, 1, Len(t))

\* C19: both costs are numbers >= 0, and a cost written with a currency
\* symbol has the value of the same cost written without it.
C19_CostsNonNegativeAndDollarFree ==
  \A r \in Runs :
    r.pc = "addDoc" =>
      /\ NotNegative(r.parsedData.laborCost)
      /\ NotNegative(r.parsedData.partsCost)
      /\ \A plain \in {StripDollar(r.text)} :
           /\ parseJobSheetText(plain).laborCost = r.parsedData.laborCost
           /\ parseJobSheetText(plain).partsCost = r.parsedData.partsCost

\* "$80" was read as 80
C19_Witness ==
  \E r \in Runs :
    /\ r.pc = "addDoc"
    /\ r.text = "Labor: $80\nParts: $210"
    /\ StripDollar(r.text) = "Labor: 80\nParts: 210"
    /\ r.parsedData.laborCost = "80"
    /\ r.parsedData.partsCost = "210"

\* from the sale step on the sale holds exactly the one photo whose capture
\* ended the photos step
OnePhotoAfterPhotosStep ==
  currentStep \in {"sale", "review"} => Len(saleData.photos) = 1

\* PhotoUpload shows no photo, hence no remove button, while it is mounted
RemoveButtonNeverShown == currentStep = "photos" => photos = <<>>

\* C20: in the new-sale flow several photos can be taken and managed:
\* capturing a photo, or removing one, does not end the photos step.
C20_PhotoDoesNotEndPhotosStep ==
  [][((\E uri \in PhotoUris : LaunchCameraResolved(uri))
        \/ (\E index \in 1..2 : RemovePhoto(index)))
       => currentStep' = "photos"]_vars

\* the steps in their documented order
StepOrder == <<"bike", "photos", "sale", "review">>

StepIndex(step) == CHOOSE i \in 1..Len(StepOrder) : StepOrder[i] = step

\* C21: the current step only moves to the next step of bike, photos, sale,
\* review, never back and never past one; at review the sale holds what the
\* bike form, the photo step and the sale form submitted.
C21_StepsAdvanceInOrder ==
  /\ [][currentStep' # currentStep => StepIndex(currentStep') = StepIndex(currentStep) + 1]_vars
  /\ [](currentStep = "review" =>
          /\ {"serialNumber", "brand", "model", "photos", "soldBy", "isNewBike", "dateSold"}
               \subseteq DOMAIN saleData
          /\ \A f \in DOMAIN BikeErrorMessages : saleData[f] # ""
          /\ Len(saleData.photos) > 0)

\* the review step was reached through the three submits
C21_Witness ==
  /\ currentStep = "review"
  /\ saleData.serialNumber = "WTU123"
  /\ saleData.photos = <<"file:///photo2.jpg">>
  /\ saleData.soldBy = "Sam"

\* s has the form local@domain.tld: one @, no white space, something before
\* the @, and after it a point with something on either side
HasFormLocalAtDomainTld(s) ==
  \E a \in 2..Len(s) :
    /\ CharAt(s, a) = "@"
    /\ \A i \in 1..Len(s) : ~IsSpace(CharAt(s, i)) /\ (i # a => CharAt(s, i) # "@")
    /\ \E d \in (a + 2)..(Len(s) - 1) : CharAt(s, d) = "."

\* the fields of a client form that the rules of the form reject
WrongClientFields(formData) ==
  {f \in {"name", "mobile"} : formData[f] = ""}
    \cup {f \in {"email"} : formData.email # "" /\ ~HasFormLocalAtDomainTld(formData.email)}

\* C22: a submit of ClientForm calls onSubmit, with the form data, exactly
\* when name and mobile are non-empty and email is empty or of the form
\* local@domain.tld; otherwise onSubmit is not called; either way the errors
\* recorded are those of exactly the wrong fields.
C22_OnSubmitOnlyWhenValid ==
  [][SubmitClient =>
       /\ DOMAIN clientErrors' = WrongClientFields(clientForm)
       /\ clientSubmits' = IF WrongClientFields(clientForm) = {}
                           THEN Append(clientSubmits, clientForm)
                           ELSE clientSubmits]_vars

\* after a valid submit, a submit with a malformed email was refused
C22_Witness ==
  /\ Len(clientSubmits) = 1
  /\ clientSubmits[1].email = "ann@mail.example.com"
  /\ clientForm.email = "ann@example."
  /\ DOMAIN clientErrors = {"email"}

\* C23: onComplete is called at most once, only when addDoc has returned, with
\* the identifier of the stored document and the stored job, whose status is
\* "pending"; a run that ended on a failure of OCR or of addDoc has called no
\* onComplete and has set an error message.
C23_OnCompleteOnlyAfterPersistence ==
  [][/\ \A i \in DOMAIN runs :
          /\ runs[i].pc = "ended" => runs'[i] = runs[i]
          /\ (runs[i].pc # "ended" /\ runs'[i].pc = "ended") =>
               IF runs[i].pc = "addDoc" /\ jobs' = Append(jobs, runs[i].jobData)
               THEN /\ completed' = Append(completed, [id |-> Len(jobs'), job |-> runs[i].jobData])
                    /\ runs[i].jobData.status = "pending"
               ELSE /\ completed' = completed
                    /\ jobs' = jobs
                    /\ Len(error') > Len("OCR Processing Failed: ")
                    /\ SubSeq(error', 1, Len("OCR Processing Failed: ")) = "OCR Processing Failed: "
     /\ completed' # completed =>
          \E i \in DOMAIN runs : runs[i].pc = "addDoc" /\ runs'[i].pc = "ended"]_vars

\* addDoc rejected: the invocation ended with an error and without onComplete
C23_Witness ==
  \E r \in Runs :
    /\ r.pc = "ended"
    /\ Submitted(r)
    /\ jobs = <<>>
    /\ completed = <<>>
    /\ error = "OCR Processing Failed: addDoc failed"

RECURSIVE LinesOf(_, _)
\* the lines of t from position i on
LinesOf(t, i) ==
  LET n == RunEnd(t, i, "[^\\n]")
  IN  IF n > Len(t) THEN <<SubSeq(t, i, Len(t))>>
      ELSE <<SubSeq(t, i, n - 1)>> \o LinesOf(t, n + 1)

\* the lines of t in the opposite order
ReverseLines(t) ==
  LET ls == LinesOf(t, 1)
  IN  JoinLines([k \in 1..Len(ls) |-> ls[Len(ls) + 1 - k]])

SingleLineLabels == <<"Customer", "Phone", "Bike", "Labor", "Parts">>

SingleLineFields == {"customerName", "customerPhone", "bikeModel", "laborCost", "partsCost"}

\* every line of t is a Customer, Phone, Bike, Labor or Parts line with a
\* value after the label, and no two lines bear the same label
LabelledLinesOnly(t) ==
  LET ls == LinesOf(t, 1)
      LabelOf(l) == {k \in 1..Len(SingleLineLabels) :
                       /\ LabelAt(l, 1, SingleLineLabels[k])
                       /\ ~IsSep(CharAt(l, RunEnd(l, Len(SingleLineLabels[k]) + 1, "[\\s:]")))
                       /\ RunEnd(l, Len(SingleLineLabels[k]) + 1, "[\\s:]") <= Len(l)}
  IN  /\ t # ""
      /\ \A j \in 1..Len(ls) : LabelOf(ls[j]) # {}
      /\ \A j, k \in 1..Len(ls) : j # k => LabelOf(ls[j]) # LabelOf(ls[k])

\* C24: the values of the single-line fields do not depend on the order of
\* their lines: a text of Customer, Phone, Bike, Labor and Parts lines and
\* the same lines in the opposite order give the same five values.
C24_LineOrderDoesNotMatter ==
  \A r \in Runs :
    (r.pc = "addDoc" /\ LabelledLinesOnly(r.text)) =>
      \A permuted \in {ReverseLines(r.text)} :
        \A f \in SingleLineFields : parseJobSheetText(permuted)[f] = r.parsedData[f]

\* C27: when no handleSubmit is under way, every sale document of an existing
\* bike has its bike marked sold with the id of that sale, and the alert
\* 'Failed to record sale' means that no sale document was stored.
C27_SaleIsAllOrNothing ==
  (\A k \in DOMAIN submits : submits[k].pc = "ended") =>
    /\ \A i \in DOMAIN saleStore :
         "bikeId" \in DOMAIN saleStore[i] =>
           /\ bikeStore[saleStore[i].bikeId].sold
           /\ "saleId" \in DOMAIN bikeStore[saleStore[i].bikeId]
           /\ bikeStore[saleStore[i].bikeId].saleId = i
    /\ alert = SaleFailedAlert => saleStore = <<>>

\* C28: once the fetch of bikes and clients has ended, with or without
\* success, loading is false.
C28_LoadingEndsWithFetch == fetchPc # "pending" => ~loading

\* serialNumber, brand or price is unset, or price is 0
MissingRequired(formData) ==
  \/ "serialNumber" \notin DOMAIN formData
  \/ "brand" \notin DOMAIN formData
  \/ "price" \notin DOMAIN formData
  \/ formData.serialNumber = ""
  \/ formData.brand = ""
  \/ formData.price = 0

\* C30: a handleSubmit with a required field missing reports 'Please fill in
\* all required fields' and ends there: no sale is created, no bike updated.
C30_NothingPersistedWhenFieldMissing ==
  [][(handleSubmit /\ MissingRequired(salesFormData)) =>
       /\ alert' = RequiredFieldsAlert
       /\ submits' = submits
       /\ UNCHANGED <<saleStore, bikeStore, clientStore>>]_vars

\* the sale of a bike whose price is 0 was refused
C30_Witness ==
  /\ formStep = "review"
  /\ StrSet(salesFormData, "bikeId")
  /\ salesFormData.bikeId = "b2"
  /\ salesFormData.price = 0
  /\ alert = RequiredFieldsAlert
  /\ submits = <<>>
  /\ saleStore = <<>>

\* C29: once every confirmed delete attempt has finished, with the success
\* alert or in the catch, and nothing of ClientList is pending any more, a
\* client is missing from the displayed list exactly when its document is
\* deleted from the clients collection.
C29_ListMatchesStoreAfterDelete ==
  (/\ \E i \in DOMAIN deletes : deletes[i].pc = "ended"
   /\ \A i \in DOMAIN deletes : deletes[i].pc \in {"canceled", "ended"}
   /\ \A i \in DOMAIN deletes : deletes[i].pending = {}
   /\ saves = <<>>) =>
    \A clientId \in DOMAIN ClientDocs :
      (\A k \in DOMAIN clients : clients[k].id # clientId)
        <=> clientId \notin DOMAIN clientStore

\* a processJobSheet call that has started and has not reached the end of finally
InProgress(i) == runs[i].pc \in {"createWorker", "recognize", "terminate", "addDoc"}

\* a processJobSheet call was made
Started(i) == runs[i].pc \in {"createWorker", "recognize", "terminate", "addDoc", "ended"}

\* C25: isProcessing is true exactly while a processJobSheet run is in
\* progress: true during every run, false once every run has ended.
C25_ProcessingWhileRunning ==
  isProcessing <=> \E i \in DOMAIN runs : InProgress(i)

\* C26: a scanner starts at most one processJobSheet run, never has two runs
\* in progress together, and stores at most one job document.
C26_AtMostOneRunAndOneJob ==
  /\ Cardinality({i \in DOMAIN runs : Started(i)}) <= 1
  /\ Cardinality({i \in DOMAIN runs : InProgress(i)}) <= 1
  /\ Len(jobs) <= 1

====
